---- MODULE Spec2Model ----
(***************************************************************************)
(* A model of the two border-cropping scripts of the repository,           *)
(* remove_border_advanced.py (tolerance mode) and remove_white_border.py   *)
(* (threshold mode), run from the command line on a small file system.     *)
(*                                                                         *)
(* A path is a sequence of one-character strings, a pixel a tuple of       *)
(* 8-bit channels, an image a record [mode, width, height, pixels] whose   *)
(* pixels are indexed <<x, y>> as PIL's pixels[x, y].  Files hold decoded  *)
(* images: saving is taken to be lossless (PNG), as in the scripts' own    *)
(* usage examples.                                                         *)
(***************************************************************************)
EXTENDS Integers, Sequences, FiniteSets, TLC

VARIABLES
    argv,         \* sys.argv: <<script, input_path [, output_path [, sensitivity]]>>
    fs,           \* the file system: path -> file content, for the paths that exist
    fs0,          \* the file system when the current invocation started (history)
    written,      \* the paths the current invocation has saved to, in order (history)
    pc,           \* "main" | "open" | "scan" | "crop" | "exit"
    status,       \* the process's exit status, -1 while it runs
    input_path, output_path,
    sensitivity,  \* tolerance (remove_border) or threshold (remove_white_border)
    img,          \* the decoded, converted image
    bg_color,     \* remove_border's background reference
    top, bottom, left, right,
    cropped,      \* the result of img.crop
    bg_prev,      \* bg_color of the invocation before this one (history)
    rerun,        \* TRUE once the script has been invoked again on its own output
    stdout,       \* the lines the current invocation has printed, in order
    examined,     \* the pixels each of the four scans has read (history)
    padding_percent, original_size, padding, new_size,
    new_img,      \* add_padding_to_icon's canvas
    file_path,    \* the file a fixer has been called on
    readonly,     \* the paths that cannot be opened for writing
    file_content, \* content: the text a fixer holds in memory
    result,       \* what the last call of a fixer returned
    fixed_count,  \* main's count of the files it fixed
    todo,         \* the files main's loop has still to visit, in order
    step,         \* the number of fix steps main has completed on the current file
    applied       \* the steps each fixer call has completed, per file (history)

vars == <<argv, fs, fs0, written, pc, status, input_path, output_path,
          sensitivity, img, bg_color, top, bottom, left, right, cropped,
          bg_prev, rerun, stdout, examined,
          padding_percent, original_size, padding, new_size, new_img,
          file_path, readonly, file_content, result, fixed_count, todo, step,
          applied>>

\* The variables only the text fixers assign.
textvars == <<file_path, readonly, file_content, result, fixed_count, todo,
              step, applied>>

\* The variables only add_icon_padding.py assigns.
padvars == <<padding_percent, original_size, padding, new_size, new_img>>

-----------------------------------------------------------------------------
\* Bounds of the model.

\* Two-colour grid images have at most MaxGridPixels pixels (3 x 3, 2 x 4, 1 x 9, ...).
MaxGridPixels == 9
\* Images over the full palette have at most MaxPalettePixels pixels.
MaxPalettePixels == 3
\* Input paths given without an output path have at most MaxPathLen characters.
MaxPathLen == 5

-----------------------------------------------------------------------------
\* Program constants.

AlphaCutoff == 10
DefaultTolerance == 30
DefaultThreshold == 250
Opaque == 255

Advanced == "remove_border_advanced.py"
WhiteBorder == "remove_white_border.py"
Scripts == {Advanced, WhiteBorder}

\* '.png' and '_no_border.png', the arguments of input_path.replace
DotPng == <<".", "p", "n", "g">>
NoBorderPng == <<"_", "n", "o", "_", "b", "o", "r", "d", "e", "r", ".", "p", "n", "g">>

-----------------------------------------------------------------------------
\* Values that stand for "not set yet".

NoPath == <<>>
NoPixel == <<>>
NoImage == [mode |-> "none", width |-> 0, height |-> 0, pixels |-> <<>>]
\* A file whose bytes are not an image.
Garbage == [mode |-> "garbage", width |-> 0, height |-> 0, pixels |-> <<>>]

-----------------------------------------------------------------------------
\* The imaging library, as far as the scripts use it.

Abs(x) == IF x < 0 THEN -x ELSE x

Coords(w, h) == (0 .. (w - 1)) \X (0 .. (h - 1))

\* img.convert(mode): RGB -> RGBA adds an opaque alpha, RGBA -> RGB drops alpha.
ConvertPixel(p, mode) ==
    IF mode = "RGBA"
    THEN (IF Len(p) = 4 THEN p ELSE <<p[1], p[2], p[3], Opaque>>)
    ELSE <<p[1], p[2], p[3]>>

Convert(image, mode) ==
    IF image.mode = mode THEN image
    ELSE [mode |-> mode, width |-> image.width, height |-> image.height,
          pixels |-> [c \in Coords(image.width, image.height) |->
                         ConvertPixel(image.pixels[c], mode)]]

\* img.crop((l, u, r, lo)): the half-open box [l, r) x [u, lo); the part of the
\* box that lies outside the image is filled with zeros.
Crop(image, box) ==
    LET l == box[1]
        u == box[2]
        w == IF box[3] > l THEN box[3] - l ELSE 0
        h == IF box[4] > u THEN box[4] - u ELSE 0
        zero == IF image.mode = "RGBA" THEN <<0, 0, 0, 0>> ELSE <<0, 0, 0>>
    IN [mode |-> image.mode, width |-> w, height |-> h,
        pixels |-> [c \in Coords(w, h) |->
                      IF <<l + c[1], u + c[2]>> \in DOMAIN image.pixels
                      THEN image.pixels[<<l + c[1], u + c[2]>>]
                      ELSE zero]]

-----------------------------------------------------------------------------
\* remove_border_advanced.py

\* A faulty variant of GetBackgroundColor: the last corner sampled is returned.
GetBackgroundColorLastCorner(image) ==
    image.pixels[<<image.width - 1, image.height - 1>>]

\* get_background_color: the four corners are sampled, the first is returned.
GetBackgroundColor(image) ==
    LET corners == << image.pixels[<<0, 0>>],
                      image.pixels[<<image.width - 1, 0>>],
                      image.pixels[<<0, image.height - 1>>],
                      image.pixels[<<image.width - 1, image.height - 1>>] >>
    IN corners[1]

\* A faulty variant of IsBackground: the transparency test is left out.
IsBackgroundIgnoringAlpha(pixel, bg, tolerance) ==
    /\ Abs(pixel[1] - bg[1]) <= tolerance
    /\ Abs(pixel[2] - bg[2]) <= tolerance
    /\ Abs(pixel[3] - bg[3]) <= tolerance

\* A faulty variant of IsBackground: alpha is compared like the colours.
IsBackgroundComparingAlpha(pixel, bg, tolerance) ==
    \/ pixel[4] < AlphaCutoff
    \/ \A i \in 1 .. 4 : Abs(pixel[i] - bg[i]) <= tolerance

\* A faulty variant of IsBackground: a difference equal to the tolerance is
\* content.
IsBackgroundStrict(pixel, bg, tolerance) ==
    \/ pixel[4] < AlphaCutoff
    \/ \A i \in 1 .. 3 : Abs(pixel[i] - bg[i]) < tolerance

\* is_background, a closure over bg_color and tolerance.
IsBackground(pixel, bg, tolerance) ==
    IF Len(pixel) = 4
    THEN IF pixel[4] < AlphaCutoff
         THEN TRUE
         ELSE /\ Abs(pixel[1] - bg[1]) <= tolerance
              /\ Abs(pixel[2] - bg[2]) <= tolerance
              /\ Abs(pixel[3] - bg[3]) <= tolerance
    ELSE /\ Abs(pixel[1] - bg[1]) <= tolerance
         /\ Abs(pixel[2] - bg[2]) <= tolerance
         /\ Abs(pixel[3] - bg[3]) <= tolerance

\* The inner loops: does row y (column x) hold a pixel that is not background?
RowHasContent(image, y, bg, tolerance) ==
    \E x \in 0 .. (image.width - 1) :
        ~IsBackground(image.pixels[<<x, y>>], bg, tolerance)

\* A faulty variant of ColHasContent: range(height - 1), the last row is not looked at.
ColHasContentButLast(image, x, bg, tolerance) ==
    \E y \in 0 .. (image.height - 2) :
        ~IsBackground(image.pixels[<<x, y>>], bg, tolerance)

ColHasContent(image, x, bg, tolerance) ==
    \E y \in 0 .. (image.height - 1) :
        ~IsBackground(image.pixels[<<x, y>>], bg, tolerance)

\* "Find top boundary": top = 0, then the first row from the top with content.
FindTop(image, bg, tolerance) ==
    LET scan[y \in 0 .. image.height] ==
            IF y = image.height THEN 0
            ELSE IF RowHasContent(image, y, bg, tolerance) THEN y
            ELSE scan[y + 1]
    IN scan[0]

\* A faulty variant of FindBottom: bottom starts at height, not height - 1.
FindBottomFromHeight(image, bg, tolerance) ==
    LET scan[y \in -1 .. (image.height - 1)] ==
            IF y = -1 THEN image.height
            ELSE IF RowHasContent(image, y, bg, tolerance) THEN y
            ELSE scan[y - 1]
    IN scan[image.height - 1]

\* "Find bottom boundary": bottom = height - 1, then the first row from the bottom.
FindBottom(image, bg, tolerance) ==
    LET scan[y \in -1 .. (image.height - 1)] ==
            IF y = -1 THEN image.height - 1
            ELSE IF RowHasContent(image, y, bg, tolerance) THEN y
            ELSE scan[y - 1]
    IN scan[image.height - 1]

\* "Find left boundary"
FindLeft(image, bg, tolerance) ==
    LET scan[x \in 0 .. image.width] ==
            IF x = image.width THEN 0
            ELSE IF ColHasContent(image, x, bg, tolerance) THEN x
            ELSE scan[x + 1]
    IN scan[0]

\* A faulty variant of FindRight: the loop of the left scan copied, range(width).
FindRightFromLeft(image, bg, tolerance) ==
    LET scan[x \in 0 .. image.width] ==
            IF x = image.width THEN image.width - 1
            ELSE IF ColHasContent(image, x, bg, tolerance) THEN x
            ELSE scan[x + 1]
    IN scan[0]

\* "Find right boundary"
FindRight(image, bg, tolerance) ==
    LET scan[x \in -1 .. (image.width - 1)] ==
            IF x = -1 THEN image.width - 1
            ELSE IF ColHasContent(image, x, bg, tolerance) THEN x
            ELSE scan[x - 1]
    IN scan[image.width - 1]

-----------------------------------------------------------------------------
\* remove_white_border.py

\* A faulty variant of IsNonWhite: "and" in place of "or".
IsNonWhiteAllChannels(pixel, threshold) ==
    /\ pixel[1] < threshold
    /\ pixel[2] < threshold
    /\ pixel[3] < threshold

\* r < threshold or g < threshold or b < threshold
IsNonWhite(pixel, threshold) ==
    \/ pixel[1] < threshold
    \/ pixel[2] < threshold
    \/ pixel[3] < threshold

\* A faulty variant of RowHasNonWhite: range(width - 1), the last column is not looked at.
RowHasNonWhiteButLast(image, y, threshold) ==
    \E x \in 0 .. (image.width - 2) : IsNonWhite(image.pixels[<<x, y>>], threshold)

RowHasNonWhite(image, y, threshold) ==
    \E x \in 0 .. (image.width - 1) : IsNonWhite(image.pixels[<<x, y>>], threshold)

ColHasNonWhite(image, x, threshold) ==
    \E y \in 0 .. (image.height - 1) : IsNonWhite(image.pixels[<<x, y>>], threshold)

WhiteTop(image, threshold) ==
    LET scan[y \in 0 .. image.height] ==
            IF y = image.height THEN 0
            ELSE IF RowHasNonWhite(image, y, threshold) THEN y
            ELSE scan[y + 1]
    IN scan[0]

\* A faulty variant of WhiteBottom: bottom starts at 0, as top does.
WhiteBottomFromZero(image, threshold) ==
    LET scan[y \in -1 .. (image.height - 1)] ==
            IF y = -1 THEN 0
            ELSE IF RowHasNonWhite(image, y, threshold) THEN y
            ELSE scan[y - 1]
    IN scan[image.height - 1]

WhiteBottom(image, threshold) ==
    LET scan[y \in -1 .. (image.height - 1)] ==
            IF y = -1 THEN image.height - 1
            ELSE IF RowHasNonWhite(image, y, threshold) THEN y
            ELSE scan[y - 1]
    IN scan[image.height - 1]

WhiteLeft(image, threshold) ==
    LET scan[x \in 0 .. image.width] ==
            IF x = image.width THEN 0
            ELSE IF ColHasNonWhite(image, x, threshold) THEN x
            ELSE scan[x + 1]
    IN scan[0]

\* A faulty variant of WhiteRight: range(width - 2, -1, -1), the last column is skipped.
WhiteRightFromSecondLast(image, threshold) ==
    LET scan[x \in -1 .. (image.width - 1)] ==
            IF x = -1 THEN image.width - 1
            ELSE IF x < image.width - 1 /\ ColHasNonWhite(image, x, threshold) THEN x
            ELSE scan[x - 1]
    IN scan[image.width - 1]

WhiteRight(image, threshold) ==
    LET scan[x \in -1 .. (image.width - 1)] ==
            IF x = -1 THEN image.width - 1
            ELSE IF ColHasNonWhite(image, x, threshold) THEN x
            ELSE scan[x - 1]
    IN scan[image.width - 1]

\* input_path.replace('.png', '_no_border.png'): str.replace replaces every
\* non-overlapping occurrence, left to right.
RECURSIVE Replace(_, _, _)
Replace(s, old, new) ==
    IF Len(s) < Len(old) THEN s
    ELSE IF SubSeq(s, 1, Len(old)) = old
         THEN new \o Replace(SubSeq(s, Len(old) + 1, Len(s)), old, new)
         ELSE <<s[1]>> \o Replace(Tail(s), old, new)

\* output_path when sys.argv has no output argument.
WhiteDefaultOutput(path) == Replace(path, DotPng, NoBorderPng)

-----------------------------------------------------------------------------
\* Both scripts.

\* A faulty variant of CropBox: rows and columns exchanged.
CropBoxSwapped(l, t, r, b) == <<t, l, b + 1, r + 1>>

\* A faulty variant of CropBox: the bounds handed over as they are, (left, top, right, bottom).
CropBoxExclusive(l, t, r, b) == <<l, t, r, b>>

\* The box handed to img.crop: (left, top, right + 1, bottom + 1).
CropBox(l, t, r, b) == <<l, t, r + 1, b + 1>>

\* Image.open(path) succeeds: the file exists and decodes.
Readable(path) == path \in DOMAIN fs /\ fs[path] # Garbage

-----------------------------------------------------------------------------
\* Inputs.

White == <<255, 255, 255, 255>>
Black == <<0, 0, 0, 255>>
\* within the default tolerance of white, below the default threshold
OffWhite == <<255, 230, 255, 255>>
\* fully transparent, as Image.new('RGBA', ..., (0, 0, 0, 0)) fills
Clear == <<0, 0, 0, 0>>
\* alpha just below, and at, the cutoff
Faint == <<255, 0, 0, 9>>
Dim == <<255, 0, 0, 10>>

GridPalette == {White, Black}
Palette == {White, Black, OffWhite, Clear, Faint, Dim}
RGBPalette == {ConvertPixel(p, "RGB") : p \in Palette}
\* tolerances and thresholds, two of them outside 0 .. 255
Sensitivities == {-1, 0, 30, 250, 256}

ImagesOf(w, h, palette, mode) ==
    {[mode |-> mode, width |-> w, height |-> h, pixels |-> f] :
        f \in [Coords(w, h) -> palette]}

\* The <<width, height>> of the images of at most n pixels.
Sizes(n) == {d \in (1 .. n) \X (1 .. n) : d[1] * d[2] <= n}

GridImages ==
    UNION {ImagesOf(d[1], d[2], GridPalette, "RGBA") : d \in Sizes(MaxGridPixels)}

PaletteImages ==
    UNION {ImagesOf(d[1], d[2], Palette, "RGBA") \cup
           ImagesOf(d[1], d[2], RGBPalette, "RGB") : d \in Sizes(MaxPalettePixels)}

PathChars == {"a", ".", "p", "n", "g"}
Paths == UNION {[1 .. n -> PathChars] : n \in 1 .. MaxPathLen}

InPath == <<"a", ".", "p", "n", "g">>
OutPath == <<"b", ".", "p", "n", "g">>
RerunPath == <<"c", ".", "p", "n", "g">>

\* A white pixel beside a black one: either script crops it to the black pixel.
Icon == [mode |-> "RGBA", width |-> 2, height |-> 1,
         pixels |-> [c \in Coords(2, 1) |-> IF c[1] = 0 THEN White ELSE Black]]

NoFiles == <<>>

NoReads == [top |-> {}, bottom |-> {}, left |-> {}, right |-> {}]

\* add_padding_to_icon has not been called.
Unpadded ==
    /\ padding_percent = -1
    /\ original_size = -1
    /\ padding = -1
    /\ new_size = -1
    /\ new_img = NoImage

NoText == <<>>
NoResult == "none"

\* No text fixer has run.
Untouched ==
    /\ file_path = NoPath
    /\ readonly = {}
    /\ file_content = NoText
    /\ result = NoResult
    /\ fixed_count = 0
    /\ todo = <<>>
    /\ step = 0
    /\ applied = <<>>

Fresh ==
    /\ pc = "main"
    /\ status = -1
    /\ written = <<>>
    /\ input_path = NoPath
    /\ output_path = NoPath
    /\ sensitivity = -1
    /\ img = NoImage
    /\ bg_color = NoPixel
    /\ top = -1 /\ bottom = -1 /\ left = -1 /\ right = -1
    /\ cropped = NoImage
    /\ stdout = <<>>
    /\ examined = NoReads

Init ==
    /\ \/ /\ argv \in {<<s, InPath, OutPath>> : s \in Scripts}
          /\ fs \in {InPath :> i : i \in GridImages}
       \/ /\ argv \in {<<s, InPath, OutPath, t>> : s \in Scripts, t \in Sensitivities}
          /\ fs \in {InPath :> i : i \in PaletteImages}
       \/ /\ argv \in {<<WhiteBorder, p>> : p \in Paths} \cup {<<Advanced, InPath>>}
          /\ fs = (argv[2] :> Icon)
       \/ /\ argv \in {<<s>> : s \in Scripts} \cup {<<s, InPath>> : s \in Scripts}
          /\ fs \in {NoFiles, InPath :> Garbage}
    /\ fs0 = fs
    /\ bg_prev = NoPixel
    /\ rerun = FALSE
    /\ Fresh
    /\ Unpadded
    /\ Untouched

-----------------------------------------------------------------------------
\* add_icon_padding.py.  Python floats are IEEE-754 doubles: a positive double
\* is kept here as the bits of its significand, most significant first, and
\* the exponent of the last bit, value = bits * 2^exp.

AddPadding == "add_icon_padding.py"
Precision == 53
DefaultPercent == 15
LogoPath == <<"l", "o", "g", "o">>
PaddedPath == <<"p", "a", "d">>

RECURSIVE ToBits(_)
ToBits(n) == IF n = 0 THEN <<>> ELSE Append(ToBits(n \div 2), n % 2)

RECURSIVE FromBits(_)
FromBits(b) ==
    IF b = <<>> THEN 0
    ELSE 2 * FromBits(SubSeq(b, 1, Len(b) - 1)) + b[Len(b)]

\* One more than the number b.
RECURSIVE Inc(_)
Inc(b) ==
    IF b = <<>> THEN <<1>>
    ELSE IF b[Len(b)] = 0 THEN Append(SubSeq(b, 1, Len(b) - 1), 1)
    ELSE Append(Inc(SubSeq(b, 1, Len(b) - 1)), 0)

\* The first Precision + 1 significant bits of p / d by long division, and
\* whether anything is left behind them.
RECURSIVE Divide(_, _, _, _)
Divide(bits, r, exp, d) ==
    IF r = 0 \/ Len(bits) >= Precision + 1
    THEN [bits |-> bits, exp |-> exp, sticky |-> r # 0]
    ELSE LET bit == IF 2 * r >= d THEN 1 ELSE 0
         IN  Divide(IF bits = <<>> /\ bit = 0 THEN bits ELSE Append(bits, bit),
                    2 * r - bit * d, exp - 1, d)

\* Round to nearest, ties to even, at Precision bits.
Round(n) ==
    IF Len(n.bits) <= Precision THEN [bits |-> n.bits, exp |-> n.exp]
    ELSE LET keep == SubSeq(n.bits, 1, Precision)
             rest == SubSeq(n.bits, Precision + 1, Len(n.bits))
             more == n.sticky \/ \E i \in 2 .. Len(rest) : rest[i] = 1
             up   == rest[1] = 1 /\ (more \/ keep[Precision] = 1)
             k    == IF up THEN Inc(keep) ELSE keep
             e    == n.exp + Len(rest)
         IN  IF Len(k) > Precision
             THEN [bits |-> SubSeq(k, 1, Precision), exp |-> e + 1]
             ELSE [bits |-> k, exp |-> e]

\* The double p / d, for integers p >= 0 and d > 0.
Quotient(p, d) == Round(Divide(ToBits(p \div d), p % d, 0, d))

\* The exact product of the integer s and the number with these bits:
\* carry[i] is what the i lowest bits hand on.
TimesBits(s, bits) ==
    LET n == Len(bits)
        carry[i \in 0 .. n] ==
            IF i = 0 THEN 0 ELSE (bits[n - i + 1] * s + carry[i - 1]) \div 2
    IN  ToBits(carry[n]) \o [i \in 1 .. n |-> (bits[i] * s + carry[n - i]) % 2]

\* The double s * x, for an integer s >= 0.
Times(s, x) ==
    IF s = 0 THEN [bits |-> <<>>, exp |-> 0]
    ELSE Round([bits |-> TimesBits(s, x.bits), exp |-> x.exp, sticky |-> FALSE])

\* int(x): the integer part of a double that is not negative.
Trunc(x) ==
    IF x.exp >= 0 THEN FromBits(x.bits \o [i \in 1 .. x.exp |-> 0])
    ELSE IF Len(x.bits) + x.exp <= 0 THEN 0
    ELSE FromBits(SubSeq(x.bits, 1, Len(x.bits) + x.exp))

\* int(original_size * (padding_percent / 100))
PaddingOf(size, percent) == Trunc(Times(size, Quotient(percent, 100)))

\* PIL's division by 255 with rounding, and the blend of one channel of the
\* canvas (under) with one of the pasted image (over) through a mask value.
Div255(a) == (((a + 128) \div 256) + a + 128) \div 256
Blend(mask, under, over) == Div255(under * (Opaque - mask) + over * mask)

\* Image.new('RGBA', (side, side), (0, 0, 0, 0))
NewImage(side) ==
    [mode |-> "RGBA", width |-> side, height |-> side,
     pixels |-> [c \in Coords(side, side) |-> Clear]]

\* A faulty variant of Paste: the image goes to the canvas's corner.
PasteAtOrigin(canvas, image, at) ==
    [canvas EXCEPT !.pixels =
        [c \in DOMAIN canvas.pixels |->
            IF c \in DOMAIN image.pixels
            THEN [i \in 1 .. 4 |->
                     Blend(image.pixels[c][4], canvas.pixels[c][i],
                           image.pixels[c][i])]
            ELSE canvas.pixels[c]]]

\* canvas.paste(image, (at, at), image): inside the canvas, every band of the
\* pixels under the image is blended with the image's band through the
\* image's alpha; the part of the image past the canvas is dropped.
Paste(canvas, image, at) ==
    [canvas EXCEPT !.pixels =
        [c \in DOMAIN canvas.pixels |->
            LET d == <<c[1] - at, c[2] - at>>
            IN  IF d \in DOMAIN image.pixels
                THEN [i \in 1 .. 4 |->
                         Blend(image.pixels[d][4], canvas.pixels[c][i],
                               image.pixels[d][i])]
                ELSE canvas.pixels[c]]]

-----------------------------------------------------------------------------
\* Text.  A text is a sequence of tokens, each a piece of Dart source that the
\* fixers' patterns take or leave as a whole; the text is the concatenation
\* of its tokens.  A pattern is a regular expression over tokens:
\*   Lit(ts)   one token out of the set ts
\*   Cat(rs)   the patterns of the sequence rs, one after the other
\*   Star(r)   r*, greedy          Opt(r)   r?, greedy
\*   Grp(r)    (r), the pattern's one capturing group
\*   WordEdge  \b

Lit(ts) == [k |-> "lit", ts |-> ts]
Cat(rs) == [k |-> "cat", rs |-> rs]
Star(r) == [k |-> "star", r |-> r]
Opt(r) == [k |-> "opt", r |-> r]
Grp(r) == [k |-> "grp", r |-> r]
WordEdge == [k |-> "edge"]
Except(ts) == [k |-> "except", ts |-> ts]
Plus(r) == Cat(<<r, Star(r)>>)

\* The tokens whose first, and whose last, character is a letter, a digit or
\* an underscore.
StartWithWord ==
    {"SyncEvent", "Local", "import", "x", "f", "id", "eventType", "entityType",
     "entityId", "message", "timestamp", "uuid.v4", "TemporalDateTime.now",
     "document.id", "doc.id", "testDoc.id", "localDoc.id", "remoteDoc.id",
     "savedDoc.id", "updatedDoc.id", "originalDocument.id",
     "conflictDocument.id", "errorDocument.id",
     "document.syncId", "doc.syncId", "testDoc.syncId", "localDoc.syncId",
     "remoteDoc.syncId", "savedDoc.syncId", "updatedDoc.syncId",
     "originalDocument.syncId", "conflictDocument.syncId",
     "errorDocument.syncId", "Document(", "userId:", "id:", "syncId:",
     "SyncIdentifierService.generate"}
EndWithWord ==
    {"SyncEvent", "Local", "import", "x", "f", "id", "eventType", "entityType",
     "entityId", "message", "timestamp", "uuid.v4", "TemporalDateTime.now",
     "document.id", "doc.id", "testDoc.id", "localDoc.id", "remoteDoc.id",
     "savedDoc.id", "updatedDoc.id", "originalDocument.id",
     "conflictDocument.id", "errorDocument.id",
     "document.syncId", "doc.syncId", "testDoc.syncId", "localDoc.syncId",
     "remoteDoc.syncId", "savedDoc.syncId", "updatedDoc.syncId",
     "originalDocument.syncId", "conflictDocument.syncId",
     "errorDocument.syncId", "SyncIdentifierService.generate"}

\* \s
Space == {" ", "      ", "\n"}

RECURSIVE Flatten(_)
Flatten(ss) == IF ss = <<>> THEN <<>> ELSE Head(ss) \o Flatten(Tail(ss))

\* The ways pattern re matches text s from position i, in the order the
\* backtracking matcher tries them: each is the position after the match and
\* the span <<from, to>> of the group, <<>> when the group took no part.
RECURSIVE Matches(_, _, _)
Matches(re, s, i) ==
    CASE re.k = "lit" ->
            IF i <= Len(s) /\ s[i] \in re.ts
            THEN << [e |-> i + 1, g |-> <<>>] >> ELSE <<>>
      [] re.k = "except" ->
            IF i <= Len(s) /\ s[i] \notin re.ts
            THEN << [e |-> i + 1, g |-> <<>>] >> ELSE <<>>
      [] re.k = "edge" ->
            IF (i > 1 /\ s[i - 1] \in EndWithWord)
                  # (i <= Len(s) /\ s[i] \in StartWithWord)
            THEN << [e |-> i, g |-> <<>>] >> ELSE <<>>
      [] re.k = "cat" ->
            IF re.rs = <<>> THEN << [e |-> i, g |-> <<>>] >>
            ELSE LET first == Matches(Head(re.rs), s, i)
                 IN  Flatten([j \in 1 .. Len(first) |->
                        LET rest == Matches(Cat(Tail(re.rs)), s, first[j].e)
                        IN  [n \in 1 .. Len(rest) |->
                               [e |-> rest[n].e,
                                g |-> IF first[j].g # <<>> THEN first[j].g
                                      ELSE rest[n].g]]])
      [] re.k = "star" ->
            LET once == Matches(re.r, s, i)
            IN  Flatten([j \in 1 .. Len(once) |->
                           IF once[j].e > i THEN Matches(re, s, once[j].e)
                           ELSE <<>>])
                   \o << [e |-> i, g |-> <<>>] >>
      [] re.k = "opt" ->
            Matches(re.r, s, i) \o << [e |-> i, g |-> <<>>] >>
      [] re.k = "grp" ->
            LET in == Matches(re.r, s, i)
            IN  [j \in 1 .. Len(in) |-> [e |-> in[j].e, g |-> <<i, in[j].e>>]]

\* re.finditer: the matches of re in s from position i on, leftmost first and
\* not overlapping; a match is [b, e, g], its span being b .. e - 1.
RECURSIVE FindAll(_, _, _)
FindAll(re, s, i) ==
    IF i > Len(s) THEN <<>>
    ELSE LET ms == Matches(re, s, i)
         IN  IF ms = <<>> \/ ms[1].e = i THEN FindAll(re, s, i + 1)
             ELSE << [b |-> i, e |-> ms[1].e, g |-> ms[1].g] >>
                     \o FindAll(re, s, ms[1].e)

\* re.search(re, s) finds something.
Found(re, s) == FindAll(re, s, 1) # <<>>

\* match.group(1)
Group(s, m) == IF m.g = <<>> THEN <<>> ELSE SubSeq(s, m.g[1], m.g[2] - 1)

\* The text with each match of ms replaced by the text of the same index.
Splice(s, ms, texts) ==
    LET from(j) == IF j = 1 THEN 1 ELSE ms[j - 1].e
    IN  Flatten([j \in 1 .. Len(ms) |->
                    SubSeq(s, from(j), ms[j].b - 1) \o texts[j]])
           \o SubSeq(s, from(Len(ms) + 1), Len(s))

\* re.sub(re, repl, s) for a replacement text without group references
Sub(re, repl, s) ==
    LET ms == FindAll(re, s, 1)
    IN  Splice(s, ms, [j \in 1 .. Len(ms) |-> repl])

\* [xs[i] for i in ... if keep[i]]
Filter(xs, keep) ==
    LET upto[k \in 0 .. Len(xs)] ==
            IF k = 0 THEN <<>>
            ELSE IF keep[k] THEN Append(upto[k - 1], xs[k])
            ELSE upto[k - 1]
    IN  upto[Len(xs)]

\* s.split(sep) for a separator of one token, and sep.join(parts)
RECURSIVE SplitAt(_, _)
SplitAt(s, sep) ==
    IF \A i \in 1 .. Len(s) : s[i] # sep THEN <<s>>
    ELSE LET i == CHOOSE n \in 1 .. Len(s) :
                     s[n] = sep /\ \A m \in 1 .. n - 1 : s[m] # sep
         IN  <<SubSeq(s, 1, i - 1)>> \o SplitAt(SubSeq(s, i + 1, Len(s)), sep)

RECURSIVE JoinWith(_, _)
JoinWith(parts, sep) ==
    IF parts = <<>> THEN <<>>
    ELSE IF Len(parts) = 1 THEN parts[1]
    ELSE parts[1] \o sep \o JoinWith(Tail(parts), sep)

\* s.split('\n'), and '\n'.join(lines)
Split(s) == SplitAt(s, "\n")
Join(lines) == JoinWith(lines, <<"\n">>)

\* line.strip(): the line without the white space at its ends.
RECURSIVE Strip(_)
Strip(s) ==
    IF s = <<>> THEN s
    ELSE IF Head(s) \in Space THEN Strip(Tail(s))
    ELSE IF s[Len(s)] \in Space THEN Strip(SubSeq(s, 1, Len(s) - 1))
    ELSE s

\* needle in line, for a needle that is one token.
Contains(s, token) == \E i \in 1 .. Len(s) : s[i] = token

-----------------------------------------------------------------------------
\* Printed lines.

Usage(script) == <<"Usage: python", script>>
Example(script) == <<"Example: python", script>>

NotFound(path) == <<"Error: not found!", path>>
PleaseEnsure == <<"Please ensure the logo file exists in assets/images/">>
AddingPadding == <<"Adding padding to app icon...">>
Done == <<"Done! Now update pubspec.yaml">>
ThenRun == <<"Then run: flutter pub run flutter_launcher_icons">>

\* The four lines add_padding_to_icon prints after saving.
PadReport(path, size, canvas, pad, percent) ==
    << <<"Created padded icon", path>>,
       <<"Original size", size, size>>,
       <<"New size", canvas, canvas>>,
       <<"Padding", pad, percent>> >>

\* The four lines both cropping scripts print after saving.
Summary(image, out, t, b, l, r, path) ==
    << <<"Original size", image.width, image.height>>,
       <<"Cropped size", out.width, out.height>>,
       <<"Removed border", t, image.height - b - 1, l, image.width - r - 1>>,
       <<"Saved to", path>> >>

-----------------------------------------------------------------------------
\* The pixels the scans read.  content is the set of coordinates the script's
\* test calls non-background.

Min(S) == CHOOSE n \in S : \A m \in S : n <= m
Max(S) == CHOOSE n \in S : \A m \in S : n >= m

\* for x in range(width): ... break -- row y is read up to its first content.
RowReads(image, content, y) ==
    LET hits == {x \in 0 .. image.width - 1 : <<x, y>> \in content}
        last == IF hits = {} THEN image.width - 1 ELSE Min(hits)
    IN  {<<x, y>> : x \in 0 .. last}

\* for y in range(height): ... break -- column x is read up to its first content.
ColReads(image, content, x) ==
    LET hits == {y \in 0 .. image.height - 1 : <<x, y>> \in content}
        last == IF hits = {} THEN image.height - 1 ELSE Min(hits)
    IN  {<<x, y>> : y \in 0 .. last}

\* A faulty variant of Reads: the column scans read their columns only
\* between the top and bottom bounds found by the row scans.
ReadsWithinRows(image, content) ==
    LET rows == {c[2] : c \in content}
        cols == {c[1] : c \in content}
        H == image.height - 1
        W == image.width - 1
        t == IF rows = {} THEN 0 ELSE Min(rows)
        b == IF rows = {} THEN H ELSE Max(rows)
        within(S) == {c \in S : t <= c[2] /\ c[2] <= b}
    IN  [top    |-> UNION {RowReads(image, content, y) :
                             y \in 0 .. (IF rows = {} THEN H ELSE Min(rows))},
         bottom |-> UNION {RowReads(image, content, y) :
                             y \in (IF rows = {} THEN 0 ELSE Max(rows)) .. H},
         left   |-> within(UNION {ColReads(image, content, x) :
                             x \in 0 .. (IF cols = {} THEN W ELSE Min(cols))}),
         right  |-> within(UNION {ColReads(image, content, x) :
                             x \in (IF cols = {} THEN 0 ELSE Max(cols)) .. W})]

\* Rows are tried from each end until one holds content, and so are columns.
Reads(image, content) ==
    LET rows == {c[2] : c \in content}
        cols == {c[1] : c \in content}
        H == image.height - 1
        W == image.width - 1
    IN  [top    |-> UNION {RowReads(image, content, y) :
                             y \in 0 .. (IF rows = {} THEN H ELSE Min(rows))},
         bottom |-> UNION {RowReads(image, content, y) :
                             y \in (IF rows = {} THEN 0 ELSE Max(rows)) .. H},
         left   |-> UNION {ColReads(image, content, x) :
                             x \in 0 .. (IF cols = {} THEN W ELSE Min(cols))},
         right  |-> UNION {ColReads(image, content, x) :
                             x \in (IF cols = {} THEN 0 ELSE Max(cols)) .. W}]

-----------------------------------------------------------------------------
\* Actions.

\* A faulty variant of Fail: the process ends with status 0.
FailQuietly ==
    /\ pc' = "exit"
    /\ status' = 0

\* An uncaught exception, or sys.exit(1): the process ends with status 1.
Fail ==
    /\ pc' = "exit"
    /\ status' = 1

\* remove_border_advanced.py, the __main__ block.
MainAdvanced ==
    /\ pc = "main"
    /\ argv[1] = Advanced
    /\ \/ /\ Len(argv) < 2
          /\ stdout' = stdout \o <<Usage(argv[1]), Example(argv[1])>>
          /\ Fail
          /\ UNCHANGED <<input_path, output_path, sensitivity>>
       \/ /\ Len(argv) >= 2
          /\ input_path' = argv[2]
          /\ output_path' = IF Len(argv) > 2 THEN argv[3] ELSE argv[2]
          /\ sensitivity' = IF Len(argv) > 3 THEN argv[4] ELSE DefaultTolerance
          /\ pc' = "open"
          /\ UNCHANGED <<status, stdout>>
    /\ UNCHANGED <<argv, fs, fs0, written, img, bg_color, bg_prev,
                   top, bottom, left, right, cropped, rerun, examined, padvars,
                   textvars>>

\* remove_white_border.py, the __main__ block.
MainWhite ==
    /\ pc = "main"
    /\ argv[1] = WhiteBorder
    /\ \/ /\ Len(argv) < 2
          /\ stdout' = stdout \o <<Usage(argv[1]), Example(argv[1])>>
          /\ Fail
          /\ UNCHANGED <<input_path, output_path, sensitivity>>
       \/ /\ Len(argv) >= 2
          /\ input_path' = argv[2]
          /\ output_path' = IF Len(argv) > 2 THEN argv[3]
                            ELSE WhiteDefaultOutput(argv[2])
          /\ sensitivity' = IF Len(argv) > 3 THEN argv[4] ELSE DefaultThreshold
          /\ pc' = "open"
          /\ UNCHANGED <<status, stdout>>
    /\ UNCHANGED <<argv, fs, fs0, written, img, bg_color, bg_prev,
                   top, bottom, left, right, cropped, rerun, examined, padvars,
                   textvars>>

\* remove_border: Image.open, convert to RGBA.
OpenAdvanced ==
    /\ pc = "open"
    /\ argv[1] = Advanced
    /\ \/ /\ ~Readable(input_path)
          /\ Fail
          /\ UNCHANGED img
       \/ /\ Readable(input_path)
          /\ img' = Convert(fs[input_path], "RGBA")
          /\ pc' = "scan"
          /\ UNCHANGED status
    /\ UNCHANGED <<argv, fs, fs0, written, input_path, output_path, sensitivity,
                   bg_color, bg_prev, top, bottom, left, right, cropped, rerun,
                   stdout, examined, padvars,
                   textvars>>

\* A faulty variant of OpenWhite: the output file is created before the
\* input is decoded.
OpenWhiteTouchingOutput ==
    /\ pc = "open"
    /\ argv[1] = WhiteBorder
    /\ fs' = (output_path :> Garbage) @@ fs
    /\ \/ /\ ~Readable(input_path)
          /\ Fail
          /\ UNCHANGED img
       \/ /\ Readable(input_path)
          /\ img' = Convert(fs[input_path], "RGB")
          /\ pc' = "scan"
          /\ UNCHANGED status
    /\ UNCHANGED <<argv, fs0, written, input_path, output_path, sensitivity,
                   bg_color, bg_prev, top, bottom, left, right, cropped, rerun,
                   stdout, examined, padvars,
                   textvars>>

\* remove_white_border: Image.open, convert to RGB.
OpenWhite ==
    /\ pc = "open"
    /\ argv[1] = WhiteBorder
    /\ \/ /\ ~Readable(input_path)
          /\ Fail
          /\ UNCHANGED img
       \/ /\ Readable(input_path)
          /\ img' = Convert(fs[input_path], "RGB")
          /\ pc' = "scan"
          /\ UNCHANGED status
    /\ UNCHANGED <<argv, fs, fs0, written, input_path, output_path, sensitivity,
                   bg_color, bg_prev, top, bottom, left, right, cropped, rerun,
                   stdout, examined, padvars,
                   textvars>>

\* remove_border: the background reference and the four boundary scans.
ScanAdvanced ==
    /\ pc = "scan"
    /\ argv[1] = Advanced
    /\ bg_color' = GetBackgroundColor(img)
    /\ top' = FindTop(img, bg_color', sensitivity)
    /\ bottom' = FindBottom(img, bg_color', sensitivity)
    /\ left' = FindLeft(img, bg_color', sensitivity)
    /\ right' = FindRight(img, bg_color', sensitivity)
    /\ examined' = Reads(img, {c \in DOMAIN img.pixels :
                                  ~IsBackground(img.pixels[c], bg_color', sensitivity)})
    /\ pc' = "crop"
    /\ UNCHANGED <<argv, fs, fs0, written, status, input_path, output_path,
                   sensitivity, img, bg_prev, cropped, rerun, stdout, padvars,
                   textvars>>

\* A faulty variant of ScanWhite: a threshold that is no channel value is
\* rejected.
ScanWhiteRangeChecked ==
    /\ pc = "scan"
    /\ argv[1] = WhiteBorder
    /\ IF sensitivity \in 0 .. Opaque
       THEN /\ top' = WhiteTop(img, sensitivity)
            /\ bottom' = WhiteBottom(img, sensitivity)
            /\ left' = WhiteLeft(img, sensitivity)
            /\ right' = WhiteRight(img, sensitivity)
            /\ examined' = Reads(img, {c \in DOMAIN img.pixels :
                                          IsNonWhite(img.pixels[c], sensitivity)})
            /\ pc' = "crop"
            /\ UNCHANGED status
       ELSE /\ Fail
            /\ UNCHANGED <<top, bottom, left, right, examined>>
    /\ UNCHANGED <<argv, fs, fs0, written, input_path, output_path,
                   sensitivity, img, bg_color, bg_prev, cropped, rerun, stdout,
                   padvars,
                   textvars>>

\* remove_white_border: the four boundary scans.
ScanWhite ==
    /\ pc = "scan"
    /\ argv[1] = WhiteBorder
    /\ top' = WhiteTop(img, sensitivity)
    /\ bottom' = WhiteBottom(img, sensitivity)
    /\ left' = WhiteLeft(img, sensitivity)
    /\ right' = WhiteRight(img, sensitivity)
    /\ examined' = Reads(img, {c \in DOMAIN img.pixels :
                                  IsNonWhite(img.pixels[c], sensitivity)})
    /\ pc' = "crop"
    /\ UNCHANGED <<argv, fs, fs0, written, status, input_path, output_path,
                   sensitivity, img, bg_color, bg_prev, cropped, rerun, stdout,
                   padvars,
                   textvars>>

\* A faulty variant of CropSave: cropped.save(input_path).
CropSaveToInput ==
    /\ pc = "crop"
    /\ cropped' = Crop(img, CropBox(left, top, right, bottom))
    /\ fs' = (input_path :> cropped') @@ fs
    /\ written' = Append(written, output_path)
    /\ pc' = "exit"
    /\ status' = 0
    /\ stdout' = stdout \o Summary(img, cropped', top, bottom, left, right,
                                    output_path)
    /\ UNCHANGED <<argv, fs0, input_path, output_path, sensitivity, img,
                   bg_color, bg_prev, top, bottom, left, right, rerun, examined,
                   padvars,
                   textvars>>

\* Either script: img.crop, cropped.save(output_path), the summary, exit 0.
CropSave ==
    /\ pc = "crop"
    /\ cropped' = Crop(img, CropBox(left, top, right, bottom))
    /\ fs' = (output_path :> cropped') @@ fs
    /\ written' = Append(written, output_path)
    /\ pc' = "exit"
    /\ status' = 0
    /\ stdout' = stdout \o Summary(img, cropped', top, bottom, left, right,
                                    output_path)
    /\ UNCHANGED <<argv, fs0, input_path, output_path, sensitivity, img,
                   bg_color, bg_prev, top, bottom, left, right, rerun, examined,
                   padvars,
                   textvars>>

\* The user runs the same script again on the file it has just written,
\* with the same sensitivity.
Rerun ==
    /\ pc = "exit"
    /\ status = 0
    /\ ~rerun
    /\ rerun' = TRUE
    /\ argv' = <<argv[1], output_path, RerunPath, sensitivity>>
    /\ fs0' = fs
    /\ bg_prev' = bg_color
    /\ pc' = "main"
    /\ status' = -1
    /\ written' = <<>>
    /\ input_path' = NoPath
    /\ output_path' = NoPath
    /\ sensitivity' = -1
    /\ img' = NoImage
    /\ bg_color' = NoPixel
    /\ top' = -1 /\ bottom' = -1 /\ left' = -1 /\ right' = -1
    /\ cropped' = NoImage
    /\ stdout' = <<>>
    /\ examined' = NoReads
    /\ UNCHANGED <<fs, padvars,
                   textvars>>

Next ==
    \/ MainAdvanced
    \/ MainWhite
    \/ OpenAdvanced
    \/ OpenWhite
    \/ ScanAdvanced
    \/ ScanWhite
    \/ CropSave
    \/ Rerun

Spec == Init /\ [][Next]_vars

-----------------------------------------------------------------------------
\* add_icon_padding.py, and remove_border_advanced.py run on what it writes.

MaxIconPixels == 4
MaxUniformSide == 50
MaxCropSide == 12

Half == <<255, 0, 0, 128>>
IconPalette == {White, Black, Clear, Half}
Percentages == {0, DefaultPercent, 58, 100}

\* Small icons of every shape over the palette, and plain white squares
\* without an alpha band.
IconImages ==
    UNION {ImagesOf(d[1], d[2], IconPalette, "RGBA") : d \in Sizes(MaxIconPixels)}
UniformIcons ==
    UNION {ImagesOf(n, n, {<<255, 255, 255>>}, "RGB") : n \in 1 .. MaxUniformSide}

\* Either the script is started, or add_padding_to_icon is called with a
\* percentage of the caller's.
PadInit ==
    /\ argv = <<AddPadding>>
    /\ \/ /\ fs \in {NoFiles, LogoPath :> Garbage, LogoPath :> Icon}
          /\ Fresh
          /\ Unpadded
       \/ /\ fs \in {LogoPath :> i : i \in IconImages \cup UniformIcons}
          /\ pc = "open"
          /\ input_path = LogoPath
          /\ output_path = PaddedPath
          /\ padding_percent \in Percentages
          /\ status = -1
          /\ written = <<>>
          /\ sensitivity = -1
          /\ img = NoImage
          /\ bg_color = NoPixel
          /\ top = -1 /\ bottom = -1 /\ left = -1 /\ right = -1
          /\ cropped = NoImage
          /\ stdout = <<>>
          /\ examined = NoReads
          /\ original_size = -1
          /\ padding = -1
          /\ new_size = -1
          /\ new_img = NoImage
    /\ fs0 = fs
    /\ bg_prev = NoPixel
    /\ rerun = FALSE
    /\ Untouched

\* The variables only the cropping scripts assign.
cropvars == <<sensitivity, bg_color, bg_prev, top, bottom, left, right, cropped,
              rerun, examined>>

\* add_icon_padding.py, the __main__ block up to the call.
PadMain ==
    /\ pc = "main"
    /\ argv[1] = AddPadding
    /\ \/ /\ LogoPath \notin DOMAIN fs
          /\ stdout' = stdout \o <<NotFound(LogoPath), PleaseEnsure>>
          /\ Fail
          /\ UNCHANGED <<input_path, output_path, padding_percent>>
       \/ /\ LogoPath \in DOMAIN fs
          /\ stdout' = Append(stdout, AddingPadding)
          /\ input_path' = LogoPath
          /\ output_path' = PaddedPath
          /\ padding_percent' = DefaultPercent
          /\ pc' = "open"
          /\ UNCHANGED status
    /\ UNCHANGED <<argv, fs, fs0, written, img, cropvars,
                   original_size, padding, new_size, new_img,
                   textvars>>

\* add_padding_to_icon: Image.open, convert to RGBA.
PadOpen ==
    /\ pc = "open"
    /\ argv[1] = AddPadding
    /\ \/ /\ ~Readable(input_path)
          /\ Fail
          /\ UNCHANGED img
       \/ /\ Readable(input_path)
          /\ img' = Convert(fs[input_path], "RGBA")
          /\ pc' = "size"
          /\ UNCHANGED status
    /\ UNCHANGED <<argv, fs, fs0, written, input_path, output_path, cropvars,
                   stdout, padvars,
                   textvars>>

\* add_padding_to_icon: the sizes, the transparent canvas and the paste.
PadCompose ==
    /\ pc = "size"
    /\ original_size' = img.width
    /\ padding' = PaddingOf(original_size', padding_percent)
    /\ new_size' = original_size' + (2 * padding')
    /\ new_img' = Paste(NewImage(new_size'), img, padding')
    /\ pc' = "save"
    /\ UNCHANGED <<argv, fs, fs0, written, status, input_path, output_path, img,
                   cropvars, stdout, padding_percent,
                   textvars>>

\* add_padding_to_icon: save and report; then the rest of the __main__ block,
\* if that is where the call came from.
PadSave ==
    /\ pc = "save"
    /\ fs' = (output_path :> new_img) @@ fs
    /\ written' = Append(written, output_path)
    /\ stdout' = stdout \o PadReport(output_path, original_size, new_size,
                                     padding, padding_percent)
                        \o (IF stdout = <<>> THEN <<>> ELSE <<Done, ThenRun>>)
    /\ pc' = "exit"
    /\ status' = 0
    /\ UNCHANGED <<argv, fs0, input_path, output_path, img, cropvars, padvars,
                   textvars>>

\* The user runs remove_border_advanced.py on the padded icon, tolerance 0,
\* if the padded icon is not too large.
CropPadded ==
    /\ pc = "exit"
    /\ status = 0
    /\ argv[1] = AddPadding
    /\ new_size <= MaxCropSide
    /\ argv' = <<Advanced, output_path, OutPath, 0>>
    /\ fs0' = fs
    /\ pc' = "main"
    /\ status' = -1
    /\ written' = <<>>
    /\ input_path' = NoPath
    /\ output_path' = NoPath
    /\ stdout' = <<>>
    /\ UNCHANGED <<fs, img, cropvars, padvars,
                   textvars>>

PadNext ==
    \/ PadMain
    \/ PadOpen
    \/ PadCompose
    \/ PadSave
    \/ CropPadded
    \/ MainAdvanced
    \/ OpenAdvanced
    \/ ScanAdvanced
    \/ CropSave

PadSpec == PadInit /\ [][PadNext]_vars

-----------------------------------------------------------------------------
\* The text fixers.

\* The variables only the image scripts assign.
imagevars == <<input_path, output_path, sensitivity, img, bg_color, top, bottom,
               left, right, cropped, bg_prev, rerun, examined, padvars>>

\* No image script runs.
NoImageRun ==
    /\ input_path = NoPath
    /\ output_path = NoPath
    /\ sensitivity = -1
    /\ img = NoImage
    /\ bg_color = NoPixel
    /\ top = -1 /\ bottom = -1 /\ left = -1 /\ right = -1
    /\ cropped = NoImage
    /\ bg_prev = NoPixel
    /\ rerun = FALSE
    /\ examined = NoReads
    /\ Unpadded

\* A file whose bytes are not UTF-8 text: reading it raises.
Undecodable == <<"\\xff">>
ReadableText(path) == path \in DOMAIN fs /\ fs[path] # Undecodable

\* The texts of at most n tokens out of the set tokens.
TextsOf(tokens, n) == UNION {[1 .. m -> tokens] : m \in 0 .. n}

\* needle in path, for a needle of whole path pieces.
PathContains(path, needle) ==
    \E i \in 0 .. Len(path) - Len(needle) :
        SubSeq(path, i + 1, i + Len(needle)) = needle

-----------------------------------------------------------------------------
\* fix_sync_event_conflicts.py.

Conflicts == "fix_sync_event_conflicts.py"
MaxRefTokens == 4
RefTokens == {"SyncEvent", "Local", "(", " ", "\n", "import", "//", "*", "x"}
ServicePath == <<".", "/", "lib", "/", "services", "/", "a.dart">>
ModelPath == <<".", "/", "lib", "/", "models", "/", "SyncEvent.dart">>
BackupPath == <<".", "/", "lib", "/", "models", "/", "SyncEvent.dart", ".bak">>
\* A faulty variant of GeneratedModel: the name of the renamed class.
RenamedModel == <<"lib", "/", "models", "/", "LocalSyncEvent.dart">>
GeneratedModel == <<"lib", "/", "models", "/", "SyncEvent.dart">>

\* r'\bSyncEvent\(' and r'\bSyncEvent\b'
ConstructorCall == Cat(<<WordEdge, Lit({"SyncEvent"}), Lit({"("})>>)
\* A faulty variant of WholeWord: the name anywhere, inside a longer word too.
Anywhere == Lit({"SyncEvent"})
WholeWord == Cat(<<WordEdge, Lit({"SyncEvent"}), WordEdge>>)

ToLocalCall == <<"Local", "SyncEvent", "(">>
ToLocal == <<"Local", "SyncEvent">>

\* The loop over the lines: a line without 'import' and with 'SyncEvent',
\* that is not a comment, has its whole-word SyncEvent replaced.
FixLine(line) ==
    IF ~Contains(line, "import") /\ Contains(line, "SyncEvent")
    THEN IF ~(Strip(line) # <<>> /\ Head(Strip(line)) = "//")
            /\ ~(Strip(line) # <<>> /\ Head(Strip(line)) = "*")
         THEN Sub(WholeWord, ToLocal, line)
         ELSE line
    ELSE line

\* What fix_sync_event_references makes of a text.
FixReferences(text) ==
    LET lines == Split(Sub(ConstructorCall, ToLocalCall, text))
    IN  Join([i \in 1 .. Len(lines) |-> FixLine(lines[i])])

FixedLine(path) == <<"Fixed SyncEvent references in", path>>
NoChanges(path) == <<"No changes needed in", path>>
ErrorProcessing(path) == <<"Error processing", path>>

RefInit ==
    /\ argv = <<Conflicts>>
    /\ file_path \in {ServicePath, ModelPath, BackupPath}
    /\ readonly = {}
    /\ fs \in {NoFiles} \cup
              {file_path :> t : t \in TextsOf(RefTokens, MaxRefTokens) \cup {Undecodable}}
    /\ fs0 = fs
    /\ pc = "call"
    /\ status = -1
    /\ written = <<>>
    /\ stdout = <<>>
    /\ file_content = NoText
    /\ result = NoResult
    /\ fixed_count = 0
    /\ todo = <<>>
    /\ step = 0
    /\ applied = <<>>
    /\ NoImageRun

\* fix_sync_event_references(file_path), from the call to the return.
FixSyncEventReferences ==
    /\ pc = "call"
    /\ argv[1] = Conflicts
    /\ IF ~ReadableText(file_path)
       THEN /\ stdout' = Append(stdout, ErrorProcessing(file_path))
            /\ result' = FALSE
            /\ UNCHANGED <<fs, written, file_content>>
       ELSE IF PathContains(file_path, GeneratedModel)
       THEN /\ file_content' = fs[file_path]
            /\ result' = FALSE
            /\ UNCHANGED <<fs, written, stdout>>
       ELSE /\ file_content' = FixReferences(fs[file_path])
            /\ IF file_content' # fs[file_path]
               THEN /\ fs' = [fs EXCEPT ![file_path] = file_content']
                    /\ written' = Append(written, file_path)
                    /\ stdout' = Append(stdout, FixedLine(file_path))
                    /\ result' = TRUE
               ELSE /\ stdout' = Append(stdout, NoChanges(file_path))
                    /\ result' = FALSE
                    /\ UNCHANGED <<fs, written>>
    /\ step' = step + 1
    /\ applied' = Append(applied, <<"fix_sync_event_references", result'>>)
    /\ pc' = "returned"
    /\ UNCHANGED <<argv, fs0, status, file_path, readonly, fixed_count, todo,
                   imagevars>>

\* The function is called once more on the same path.
CallAgain ==
    /\ pc = "returned"
    /\ argv[1] = Conflicts
    /\ step < 2
    /\ pc' = "call"
    /\ fs0' = fs
    /\ written' = <<>>
    /\ stdout' = <<>>
    /\ file_content' = NoText
    /\ result' = NoResult
    /\ UNCHANGED <<argv, fs, status, file_path, readonly, fixed_count, todo, step,
                   applied, imagevars>>

RefNext ==
    \/ FixSyncEventReferences
    \/ CallAgain

RefSpec == RefInit /\ [][RefNext]_vars

-----------------------------------------------------------------------------
\* fix_lib_errors.py: fix_sync_event_constructors.

LibErrors == "fix_lib_errors.py"
LibPath == <<"lib", "/", "a.dart">>
MaxArgs == 2

\* r'SyncEvent\s*\(\s*([^)]*)\)'
SyncEventPattern ==
    Cat(<<Lit({"SyncEvent"}), Star(Lit(Space)), Lit({"("}), Star(Lit(Space)),
          Grp(Star(Except({")"}))), Lit({")"})>>)

\* required_params, in the order of the dict
RequiredNames ==
    <<"id", "eventType", "entityType", "entityId", "message", "timestamp">>
DefaultValue ==
    [id |-> <<"uuid.v4", "(", ")">>,
     eventType |-> <<"\"sync_event\"">>,
     entityType |-> <<"\"document\"">>,
     entityId |-> <<"\"unknown\"">>,
     message |-> <<"\"Sync event\"">>,
     timestamp |-> <<"TemporalDateTime.now", "(", ")">>]

NotBlank(p) == Strip(p) # <<>>

\* fix_sync_event_constructor(match): the call written in place of the match.
FixSyncEventConstructor(s, m) ==
    LET params == Group(s, m)
        parts == SplitAt(params, ",")
        existing_params ==
            IF Strip(params) = <<>> THEN {}
            ELSE {Strip(SplitAt(parts[i], ":")[1]) :
                     i \in {j \in 1 .. Len(parts) : Contains(parts[j], ":")}}
        kept == IF Strip(params) = <<>> THEN <<>>
                ELSE Filter(parts, [i \in 1 .. Len(parts) |-> NotBlank(parts[i])])
        missing == Filter(RequiredNames,
                          [i \in 1 .. Len(RequiredNames) |->
                              <<RequiredNames[i]>> \notin existing_params])
        param_list ==
            [i \in 1 .. Len(kept) |-> Strip(kept[i])]
               \o [i \in 1 .. Len(missing) |->
                      <<missing[i], ":", " ">> \o DefaultValue[missing[i]]]
    IN  <<"SyncEvent", "(">> \o JoinWith(param_list, <<",", " ">>) \o <<")">>

\* What fix_sync_event_constructors makes of a text.
FixConstructors(text) ==
    LET ms == FindAll(SyncEventPattern, text, 1)
    IN  Splice(text, ms,
               [j \in 1 .. Len(ms) |-> FixSyncEventConstructor(text, ms[j])])

\* The argument values and the arguments the calls of the files are made of.
ArgValues == {<<"x">>, <<"uuid.v4", "(", ")">>, <<"f", "(", "x", ")">>}
ArgNames == {"id", "eventType", "message", "timestamp"}
Args ==
    ArgValues \cup {<<n, ":", " ">> \o v : n \in ArgNames, v \in ArgValues}
ArgLists == UNION {[1 .. n -> Args] : n \in 0 .. MaxArgs}
Before == {<<>>, <<"Local">>, <<"x", " ", "=", " ">>}
After == {<<>>, <<";", "\n">>, <<";", "\n", "SyncEvent", " ", "(", " ", ")">>}
CallTexts ==
    {b \o <<"SyncEvent", "(">> \o JoinWith(as, <<",", " ">>) \o <<")">> \o a :
        b \in Before, as \in ArgLists, a \in After}

FixedConstructors(path) == <<"Fixed SyncEvent constructors in", path>>

CtorInit ==
    /\ argv = <<LibErrors>>
    /\ file_path = LibPath
    /\ readonly = {}
    /\ fs \in {file_path :> t : t \in CallTexts}
    /\ fs0 = fs
    /\ pc = "call"
    /\ status = -1
    /\ written = <<>>
    /\ stdout = <<>>
    /\ file_content = NoText
    /\ result = NoResult
    /\ fixed_count = 0
    /\ todo = <<>>
    /\ step = 0
    /\ applied = <<>>
    /\ NoImageRun

\* fix_sync_event_constructors(file_path), from the call to the return.
FixSyncEventConstructors ==
    /\ pc = "call"
    /\ argv[1] = LibErrors
    /\ file_content' = FixConstructors(fs[file_path])
    /\ IF file_content' # fs[file_path]
       THEN /\ fs' = [fs EXCEPT ![file_path] = file_content']
            /\ written' = Append(written, file_path)
            /\ stdout' = Append(stdout, FixedConstructors(file_path))
       ELSE UNCHANGED <<fs, written, stdout>>
    /\ step' = step + 1
    /\ pc' = "returned"
    /\ UNCHANGED <<argv, fs0, status, file_path, readonly, result, fixed_count,
                   todo, applied, imagevars>>

CtorNext == FixSyncEventConstructors

CtorSpec == CtorInit /\ [][CtorNext]_vars

-----------------------------------------------------------------------------
\* patch_duplicate_sync_ids.py: patch_document_sync_manager.

Patch == "patch_duplicate_sync_ids.py"
ManagerPath == <<"lib", "/", "services", "/", "document_sync_manager.dart">>
MaxInner == 2

AmplifyImport == "import 'package:amplify_flutter/amplify_flutter.dart';"
UuidImport == "import 'package:uuid/uuid.dart';"
IfErrors == "if (response.hasErrors) {"
Throw == "throw Exception("

\* r"(import 'package:amplify_flutter/amplify_flutter.dart';)"
ImportPattern == Grp(Lit({AmplifyImport}))
\* r"\1\nimport 'package:uuid/uuid.dart';"
ImportReplacement(s, m) == Group(s, m) \o <<"\n", UuidImport>>

\* r"(if \(response\.hasErrors\) \{[^}]+throw Exception\([^)]+\);[\s]*\})"
ErrorPattern ==
    Grp(Cat(<<Lit({IfErrors}), Plus(Except({"}"})), Lit({Throw}),
              Plus(Except({")", ");"})), Lit({");"}), Star(Lit(Space)),
              Lit({"}"})>>))

\* enhanced_error_handling, the retry block being one token
EnhancedErrorHandling ==
    <<IfErrors, "\n", "// retry once with a new sync identifier", "\n", Throw,
      "'Upload failed: $errorMessages'", ");", "\n", "}">>

\* The content at the search: the content read, with the UUID import added
\* when the text has none.
WithUuidImport(text) ==
    IF ~Contains(text, UuidImport)
    THEN LET ms == FindAll(ImportPattern, text, 1)
         IN  Splice(text, ms,
                    [j \in 1 .. Len(ms) |-> ImportReplacement(text, ms[j])])
    ELSE text

FileNotFound(path) == <<"File not found:", path>>
Patching(path) == <<"Patching", path>>
AddedImport == <<"Added UUID import">>
Enhanced == <<"Enhanced error handling for duplicate sync IDs">>
PatternNotFound == <<"Could not find error handling pattern to patch">>
Patched(path) == <<"Successfully patched", path>>

\* The files the patch is run on: the imports, then what may be an error
\* handling block.
ImportLines ==
    {<<>>, <<AmplifyImport, "\n">>, <<UuidImport, "\n">>,
     <<AmplifyImport, "\n", UuidImport, "\n">>}
Blocks ==
    {open \o inner \o throw \o arg \o end \o gap \o close :
        open \in {<<>>, <<IfErrors>>},
        inner \in TextsOf({"x", "}", AmplifyImport}, MaxInner),
        throw \in {<<>>, <<Throw>>},
        arg \in TextsOf({"x", ")"}, MaxInner),
        end \in {<<>>, <<");">>},
        gap \in {<<>>, <<" ">>, <<"\n">>},
        close \in {<<>>, <<"}">>}}
ManagerTexts == {i \o b : i \in ImportLines, b \in Blocks}

PatchInit ==
    /\ argv = <<Patch>>
    /\ file_path = ManagerPath
    /\ fs \in {NoFiles} \cup
              {file_path :> t : t \in ManagerTexts \cup {Undecodable}}
    /\ readonly \in {{}, {file_path}}
    /\ fs0 = fs
    /\ pc = "call"
    /\ status = -1
    /\ written = <<>>
    /\ stdout = <<>>
    /\ file_content = NoText
    /\ result = NoResult
    /\ fixed_count = 0
    /\ todo = <<>>
    /\ step = 0
    /\ applied = <<>>
    /\ NoImageRun

\* A faulty variant of PatchDocumentSyncManager: the content is written back
\* before the search for the error handling.
PatchSavingImport ==
    /\ pc = "call"
    /\ argv[1] = Patch
    /\ IF file_path \notin DOMAIN fs
       THEN /\ stdout' = Append(stdout, FileNotFound(file_path))
            /\ result' = FALSE
            /\ pc' = "returned"
            /\ UNCHANGED <<fs, written, file_content>>
       ELSE IF fs[file_path] = Undecodable
       THEN /\ stdout' = Append(stdout, Patching(file_path))
            /\ pc' = "raised"
            /\ UNCHANGED <<fs, written, file_content, result>>
       ELSE LET content == WithUuidImport(fs[file_path])
                added == IF ~Contains(fs[file_path], UuidImport)
                         THEN <<AddedImport>> ELSE <<>>
            IN  IF file_path \in readonly
                THEN /\ file_content' = content
                     /\ stdout' = stdout \o <<Patching(file_path)>> \o added
                     /\ pc' = "raised"
                     /\ UNCHANGED <<fs, written, result>>
                ELSE IF ~Found(ErrorPattern, content)
                THEN /\ file_content' = content
                     /\ fs' = [fs EXCEPT ![file_path] = content]
                     /\ written' = Append(written, file_path)
                     /\ stdout' = stdout \o <<Patching(file_path)>> \o added
                                     \o <<PatternNotFound>>
                     /\ result' = FALSE
                     /\ pc' = "returned"
                ELSE /\ file_content' = Sub(ErrorPattern, EnhancedErrorHandling,
                                            content)
                     /\ fs' = [fs EXCEPT ![file_path] = file_content']
                     /\ written' = Append(written, file_path)
                     /\ stdout' = stdout \o <<Patching(file_path)>> \o added
                                     \o <<Enhanced, Patched(file_path)>>
                     /\ result' = TRUE
                     /\ pc' = "returned"
    /\ step' = step + 1
    /\ UNCHANGED <<argv, fs0, status, file_path, readonly, fixed_count, todo,
                   applied, imagevars>>

\* patch_document_sync_manager(), from the call to the return or the raise.
PatchDocumentSyncManager ==
    /\ pc = "call"
    /\ argv[1] = Patch
    /\ IF file_path \notin DOMAIN fs
       THEN /\ stdout' = Append(stdout, FileNotFound(file_path))
            /\ result' = FALSE
            /\ pc' = "returned"
            /\ UNCHANGED <<fs, written, file_content>>
       ELSE IF fs[file_path] = Undecodable
       THEN /\ stdout' = Append(stdout, Patching(file_path))
            /\ pc' = "raised"
            /\ UNCHANGED <<fs, written, file_content, result>>
       ELSE LET content == WithUuidImport(fs[file_path])
                added == IF ~Contains(fs[file_path], UuidImport)
                         THEN <<AddedImport>> ELSE <<>>
            IN  IF ~Found(ErrorPattern, content)
                THEN /\ file_content' = content
                     /\ stdout' = stdout \o <<Patching(file_path)>> \o added
                                     \o <<PatternNotFound>>
                     /\ result' = FALSE
                     /\ pc' = "returned"
                     /\ UNCHANGED <<fs, written>>
                ELSE /\ file_content' = Sub(ErrorPattern, EnhancedErrorHandling,
                                            content)
                     /\ IF file_path \in readonly
                        THEN /\ stdout' = stdout \o <<Patching(file_path)>>
                                             \o added \o <<Enhanced>>
                             /\ pc' = "raised"
                             /\ UNCHANGED <<fs, written, result>>
                        ELSE /\ fs' = [fs EXCEPT ![file_path] = file_content']
                             /\ written' = Append(written, file_path)
                             /\ stdout' = stdout \o <<Patching(file_path)>>
                                             \o added
                                             \o <<Enhanced, Patched(file_path)>>
                             /\ result' = TRUE
                             /\ pc' = "returned"
    /\ step' = step + 1
    /\ UNCHANGED <<argv, fs0, status, file_path, readonly, fixed_count, todo,
                   applied, imagevars>>

PatchNext == PatchDocumentSyncManager

PatchFileSpec == PatchInit /\ [][PatchNext]_vars

-----------------------------------------------------------------------------
\* fix_document_model.py and fix_document_only.py: fix_document_references.

DocumentModel == "fix_document_model.py"
DocumentOnly == "fix_document_only.py"
MaxDocTokens == 3
DocTokens ==
    {"document.id", "Document(", "id:", "userId:", "syncId:", ",", "\n", " ",
     "x", ")"}

\* The variables renamed by fix_document_model.py, as <<before, after>>
ModelRenames ==
    << <<"document.id", "document.syncId">>, <<"doc.id", "doc.syncId">>,
       <<"testDoc.id", "testDoc.syncId">>, <<"localDoc.id", "localDoc.syncId">>,
       <<"remoteDoc.id", "remoteDoc.syncId">>,
       <<"savedDoc.id", "savedDoc.syncId">>,
       <<"updatedDoc.id", "updatedDoc.syncId">> >>
\* and by fix_document_only.py
OnlyRenames ==
    << <<"document.id", "document.syncId">>,
       <<"testDoc.id", "testDoc.syncId">>, <<"localDoc.id", "localDoc.syncId">>,
       <<"remoteDoc.id", "remoteDoc.syncId">>,
       <<"savedDoc.id", "savedDoc.syncId">>,
       <<"updatedDoc.id", "updatedDoc.syncId">>,
       <<"originalDocument.id", "originalDocument.syncId">>,
       <<"conflictDocument.id", "conflictDocument.syncId">>,
       <<"errorDocument.id", "errorDocument.syncId">> >>

\* The substitutions of the renames, one after the other; front is what the
\* pattern has before the name, <<>> or <<WordEdge>>.
Rename(text, renames, front) ==
    LET upto[k \in 0 .. Len(renames)] ==
            IF k = 0 THEN text
            ELSE Sub(Cat(front \o <<Lit({renames[k][1]}), WordEdge>>),
                     <<renames[k][2]>>, upto[k - 1])
    IN  upto[Len(renames)]

\* "Document(\n      syncId: SyncIdentifierService.generate(),"
WithSyncId ==
    <<"Document(", "\n", "      ", "syncId:", " ",
      "SyncIdentifierService.generate", "(", ")", ",">>

WholeMatch(s, m) == SubSeq(s, m.b, m.e - 1)

\* fix_document_model.py: r'Document\(\s*(\n[^)]*)'
ModelConstructor ==
    Cat(<<Lit({"Document("}), Star(Lit(Space)),
          Grp(Cat(<<Lit({"\n"}), Star(Except({")"}))>>))>>)
ModelFixConstructor(s, m) ==
    IF Contains(Group(s, m), "syncId:") THEN WholeMatch(s, m)
    ELSE IF Strip(Group(s, m)) # <<>>
    THEN WithSyncId \o <<"\n">> \o Group(s, m)
    ELSE WithSyncId \o <<"\n">>

\* r'id:\s*[^,\n]+,?\s*\n'
IdParameter ==
    Cat(<<Lit({"id:"}), Star(Lit(Space)), Plus(Except({",", "\n"})),
          Opt(Lit({","})), Star(Lit(Space)), Lit({"\n"})>>)
\* r'Document\(\s*userId:'
UserIdFirst == Cat(<<Lit({"Document("}), Star(Lit(Space)), Lit({"userId:"})>>)
SyncIdThenUserId == WithSyncId \o <<"\n", "      ", "userId:">>

\* What fix_document_model.py makes of a text.
FixModel(text) ==
    LET renamed == Rename(text, ModelRenames, <<>>)
        ms == FindAll(ModelConstructor, renamed, 1)
        constructed ==
            Splice(renamed, ms,
                   [j \in 1 .. Len(ms) |-> ModelFixConstructor(renamed, ms[j])])
    IN  Sub(UserIdFirst, SyncIdThenUserId, Sub(IdParameter, <<>>, constructed))

\* fix_document_only.py: r'Document\(\s*id:\s*[^,\n]+,?\s*\n'
IdFirst == Cat(<<Lit({"Document("}), Star(Lit(Space)), IdParameter>>)
\* r'Document\((\s*\n\s*userId:[^)]+)'
OnlyConstructor ==
    Cat(<<Lit({"Document("}),
          Grp(Cat(<<Star(Lit(Space)), Lit({"\n"}), Star(Lit(Space)),
                    Lit({"userId:"}), Plus(Except({")"}))>>))>>)
OnlyFixConstructor(s, m) ==
    IF Contains(Group(s, m), "syncId:") THEN WholeMatch(s, m)
    ELSE WithSyncId \o Group(s, m)

\* What fix_document_only.py makes of a text.
FixOnly(text) ==
    LET renamed == Rename(text, OnlyRenames, <<WordEdge>>)
        with_sync_id ==
            Sub(UserIdFirst, SyncIdThenUserId,
                Sub(IdFirst, <<"Document(", "\n">>, renamed))
        ms == FindAll(OnlyConstructor, with_sync_id, 1)
    IN  Splice(with_sync_id, ms,
               [j \in 1 .. Len(ms) |->
                   OnlyFixConstructor(with_sync_id, ms[j])])

FixDocument(script, text) ==
    IF script = DocumentModel THEN FixModel(text) ELSE FixOnly(text)

FirstFile == <<".", "/", "a.dart">>
SecondFile == <<".", "/", "b.dart">>

FoundFiles(n) == <<"Found", n, "Dart files">>
Fixed(path) == <<"Fixed:", path>>
FixedFiles(n) == <<"Fixed", n, "files">>

\* main has listed the Dart files and is at the head of its loop.
DocInit ==
    /\ argv \in {<<DocumentModel>>, <<DocumentOnly>>}
    /\ fs \in {(FirstFile :> t) @@ (SecondFile :> u) :
                 t \in TextsOf(DocTokens, MaxDocTokens) \cup {Undecodable},
                 u \in {<<"document.id">>, <<"doc.id">>}}
    /\ readonly \in {{}, {FirstFile}}
    /\ fs0 = fs
    /\ todo = <<FirstFile, SecondFile>>
    /\ stdout = <<FoundFiles(Len(todo))>>
    /\ pc = "loop"
    /\ status = -1
    /\ written = <<>>
    /\ file_path = NoPath
    /\ file_content = NoText
    /\ result = NoResult
    /\ fixed_count = 0
    /\ step = 0
    /\ applied = <<>>
    /\ NoImageRun

\* fix_document_references(file_path) on the next file of the list, from the
\* call to the return.
FixDocumentReferences ==
    /\ pc = "loop"
    /\ argv[1] \in {DocumentModel, DocumentOnly}
    /\ todo # <<>>
    /\ file_path' = Head(todo)
    /\ IF ~ReadableText(file_path')
       THEN /\ stdout' = Append(stdout, ErrorProcessing(file_path'))
            /\ result' = FALSE
            /\ UNCHANGED <<fs, written, file_content>>
       ELSE /\ file_content' = FixDocument(argv[1], fs[file_path'])
            /\ IF file_content' = fs[file_path']
               THEN /\ result' = FALSE
                    /\ UNCHANGED <<fs, written, stdout>>
               ELSE IF file_path' \in readonly
               THEN /\ stdout' = Append(stdout, ErrorProcessing(file_path'))
                    /\ result' = FALSE
                    /\ UNCHANGED <<fs, written>>
               ELSE /\ fs' = [fs EXCEPT ![file_path'] = file_content']
                    /\ written' = Append(written, file_path')
                    /\ stdout' = Append(stdout, Fixed(file_path'))
                    /\ result' = TRUE
    /\ applied' = Append(applied, <<file_path', result'>>)
    /\ step' = step + 1
    /\ pc' = "returned"
    /\ UNCHANGED <<argv, fs0, status, readonly, fixed_count, todo, imagevars>>

\* A faulty variant of CountFixed: every call is counted.
CountCalls ==
    /\ pc = "returned"
    /\ argv[1] \in {DocumentModel, DocumentOnly}
    /\ fixed_count' = fixed_count + 1
    /\ todo' = Tail(todo)
    /\ pc' = "loop"
    /\ UNCHANGED <<argv, fs, fs0, written, status, stdout, file_path, readonly,
                   file_content, result, step, applied, imagevars>>

\* main: if fix_document_references(file_path): fixed_count += 1
CountFixed ==
    /\ pc = "returned"
    /\ argv[1] \in {DocumentModel, DocumentOnly}
    /\ fixed_count' = IF result THEN fixed_count + 1 ELSE fixed_count
    /\ todo' = Tail(todo)
    /\ pc' = "loop"
    /\ UNCHANGED <<argv, fs, fs0, written, status, stdout, file_path, readonly,
                   file_content, result, step, applied, imagevars>>

\* main after its loop
DocFinish ==
    /\ pc = "loop"
    /\ argv[1] \in {DocumentModel, DocumentOnly}
    /\ todo = <<>>
    /\ stdout' = Append(stdout, FixedFiles(fixed_count))
    /\ pc' = "done"
    /\ UNCHANGED <<argv, fs, fs0, written, status, file_path, readonly,
                   file_content, result, fixed_count, todo, step, applied,
                   imagevars>>

DocNext ==
    \/ FixDocumentReferences
    \/ CountFixed
    \/ DocFinish

DocSpec == DocInit /\ [][DocNext]_vars

-----------------------------------------------------------------------------
\* The batch fixers: main of fix_remaining_errors.py, fix_final_errors.py,
\* fix_lib_errors.py and fix_specific_errors.py.  A fix step is taken by the
\* texts it rewrites: a text is the sequence of the defects it holds, each
\* named by the step that repairs it, and a step turns its defects into "ok".

RemainingErrors == "fix_remaining_errors.py"
FinalErrors == "fix_final_errors.py"
SpecificErrors == "fix_specific_errors.py"
BatchScripts == {RemainingErrors, FinalErrors, LibErrors, SpecificErrors}

\* The fix steps of main's try block, in the order of the calls.
FixSteps(script) ==
    CASE script = RemainingErrors ->
            <<"fix_sync_identifier_imports", "fix_document_constructor_calls",
              "fix_document_id_references", "fix_duplicate_syncid_arguments",
              "fix_missing_required_arguments",
              "fix_sync_event_constructor_issues">>
      [] script = FinalErrors ->
            <<"fix_sync_identifier_method_calls",
              "fix_document_constructor_issues",
              "fix_validation_result_constructor", "fix_mock_file_issues">>
      [] script = LibErrors ->
            <<"fix_sync_identifier_service_calls", "fix_document_id_references",
              "fix_sync_event_constructors", "fix_validation_result_constructors",
              "fix_missing_imports">>
      [] script = SpecificErrors ->
            <<"remove_broken_imports", "fix_sync_identifier_service_usage",
              "fix_temporal_datetime_import", "fix_broken_document_constructors",
              "fix_syntax_errors">>

\* os.walk('test'), os.walk('lib')
Directory(script) == IF script = LibErrors THEN "lib" ELSE "test"

\* The Dart files the directory may hold, in the order os.walk yields them.
DartFiles(script) ==
    << <<Directory(script), "/", "a.dart">>,
       <<Directory(script), "/", "a", ".mocks.dart">>,
       <<Directory(script), "/", "b.dart">> >>

\* '.mocks.dart' in file_path, and file.endswith('.mocks.dart')
IsMock(path) == PathContains(path, <<".mocks.dart">>)

\* The list main builds: the Dart files of the directory, and for
\* fix_specific_errors.py those that are no mock files.
Listed(script, files) ==
    LET Kept(path) ==
            /\ path \in DOMAIN files
            /\ script = SpecificErrors => path[Len(path)] # ".mocks.dart"
    IN  Filter(DartFiles(script),
               [i \in 1 .. Len(DartFiles(script)) |-> Kept(DartFiles(script)[i])])

\* The step opens the file: every step does, but fix_mock_file_issues, which
\* returns at once for a path without '.mocks.dart'.
Opens(fix, path) == fix = "fix_mock_file_issues" => IsMock(path)

\* The text the step makes of a text.
Repaired(fix, text) ==
    [i \in 1 .. Len(text) |-> IF text[i] = fix THEN "ok" ELSE text[i]]

\* The step raises: it cannot read the file, or cannot write what it changed.
Raises(fix, path) ==
    /\ Opens(fix, path)
    /\ \/ ~ReadableText(path)
       \/ Repaired(fix, fs[path]) # fs[path] /\ path \in readonly

Starting(script) == <<"Starting", script>>
FoundToProcess(n) == <<"Found", n, "files to process">>
Processing(path) == <<"Processing", path>>
Skipping(path) == <<"Skipping mock file:", path>>
Completed(script) == <<"completed!", script>>
RunAnalyze == <<"Run 'flutter analyze' to check remaining issues.">>

\* The texts of the files: clean, with a defect of the first or of the last
\* step, or undecodable.
BatchTexts(script) ==
    {<<>>, <<FixSteps(script)[1]>>,
     <<FixSteps(script)[Len(FixSteps(script))]>>, Undecodable}

\* main has listed the files and is at the head of its loop.
BatchInit ==
    /\ argv \in {<<script>> : script \in BatchScripts}
    /\ \E files \in SUBSET {DartFiles(argv[1])[i] : i \in 1 .. 3} :
          /\ fs \in [files -> BatchTexts(argv[1])]
          /\ readonly \in SUBSET files
    /\ fs0 = fs
    /\ todo = Listed(argv[1], fs)
    /\ stdout = <<Starting(argv[1]), FoundToProcess(Len(todo))>>
    /\ pc = "loop"
    /\ status = -1
    /\ written = <<>>
    /\ file_path = NoPath
    /\ file_content = NoText
    /\ result = NoResult
    /\ fixed_count = 0
    /\ step = 0
    /\ applied = <<>>
    /\ NoImageRun

\* The loop takes the next file and enters the try block.
BeginFile ==
    /\ pc = "loop"
    /\ argv[1] \in BatchScripts
    /\ todo # <<>>
    /\ ~(argv[1] = RemainingErrors /\ IsMock(Head(todo)))
    /\ file_path' = Head(todo)
    /\ stdout' = Append(stdout, Processing(Head(todo)))
    /\ step' = 1
    /\ pc' = "try"
    /\ UNCHANGED <<argv, fs, fs0, written, status, readonly, file_content,
                   result, fixed_count, todo, applied, imagevars>>

\* fix_remaining_errors.py: a mock file is skipped.
SkipMock ==
    /\ pc = "loop"
    /\ argv[1] = RemainingErrors
    /\ todo # <<>>
    /\ IsMock(Head(todo))
    /\ file_path' = Head(todo)
    /\ stdout' = stdout \o <<Processing(Head(todo)), Skipping(Head(todo))>>
    /\ todo' = Tail(todo)
    /\ UNCHANGED <<argv, fs, fs0, written, status, pc, readonly, file_content,
                   result, fixed_count, step, applied, imagevars>>

\* The next fix step of the try block returns; after the last one the loop
\* goes on to the next file.
StepReturns ==
    /\ pc = "try"
    /\ argv[1] \in BatchScripts
    /\ LET fix == FixSteps(argv[1])[step]
       IN  /\ ~Raises(fix, file_path)
           /\ applied' = Append(applied, [file |-> file_path, fix |-> fix,
                                          raised |-> FALSE])
           /\ IF Opens(fix, file_path)
              THEN /\ file_content' = Repaired(fix, fs[file_path])
                   /\ IF file_content' # fs[file_path]
                      THEN /\ fs' = [fs EXCEPT ![file_path] = file_content']
                           /\ written' = Append(written, file_path)
                           /\ stdout' = Append(stdout, <<fix, file_path>>)
                      ELSE UNCHANGED <<fs, written, stdout>>
              ELSE UNCHANGED <<fs, written, stdout, file_content>>
    /\ IF step < Len(FixSteps(argv[1]))
       THEN /\ step' = step + 1
            /\ UNCHANGED <<pc, todo>>
       ELSE /\ step' = 0
            /\ todo' = Tail(todo)
            /\ pc' = "loop"
    /\ UNCHANGED <<argv, fs0, status, file_path, readonly, result, fixed_count,
                   imagevars>>

\* A faulty variant of StepRaises: the exception leaves main.
StepRaisesUncaught ==
    /\ pc = "try"
    /\ argv[1] \in BatchScripts
    /\ Raises(FixSteps(argv[1])[step], file_path)
    /\ applied' = Append(applied, [file |-> file_path,
                                   fix |-> FixSteps(argv[1])[step],
                                   raised |-> TRUE])
    /\ pc' = "raised"
    /\ UNCHANGED <<argv, fs, fs0, written, status, stdout, file_path, readonly,
                   file_content, result, fixed_count, todo, step, imagevars>>

\* The next fix step raises: except Exception prints the error and the loop
\* goes on to the next file.
StepRaises ==
    /\ pc = "try"
    /\ argv[1] \in BatchScripts
    /\ Raises(FixSteps(argv[1])[step], file_path)
    /\ applied' = Append(applied, [file |-> file_path,
                                   fix |-> FixSteps(argv[1])[step],
                                   raised |-> TRUE])
    /\ stdout' = Append(stdout, ErrorProcessing(file_path))
    /\ step' = 0
    /\ todo' = Tail(todo)
    /\ pc' = "loop"
    /\ UNCHANGED <<argv, fs, fs0, written, status, file_path, readonly,
                   file_content, result, fixed_count, imagevars>>

\* main after its loop
BatchFinish ==
    /\ pc = "loop"
    /\ argv[1] \in BatchScripts
    /\ todo = <<>>
    /\ stdout' = stdout \o <<Completed(argv[1]), RunAnalyze>>
    /\ pc' = "done"
    /\ UNCHANGED <<argv, fs, fs0, written, status, file_path, readonly,
                   file_content, result, fixed_count, todo, step, applied,
                   imagevars>>

BatchNext ==
    \/ BeginFile
    \/ SkipMock
    \/ StepReturns
    \/ StepRaises
    \/ BatchFinish

\* The interpreter runs main to its end.
BatchSpec == BatchInit /\ [][BatchNext]_vars /\ WF_vars(BatchNext)

\* A started process keeps running: the interpreter executes the script's
\* next statement.  The user need not run the script again.
Step ==
    \/ MainAdvanced
    \/ MainWhite
    \/ OpenAdvanced
    \/ OpenWhite
    \/ ScanAdvanced
    \/ ScanWhite
    \/ CropSave

\* The invocations that name their sensitivity, a channel value or not, on an
\* image of the mode their script works in, and those that fail.
FairSensitivities == {-1, DefaultTolerance, 256}

FairInit ==
    /\ \/ /\ argv \in {<<s, InPath, OutPath, t>> : s \in Scripts, t \in FairSensitivities}
          /\ fs \in {InPath :> i : i \in PaletteImages}
          /\ fs[InPath].mode = (IF argv[1] = Advanced THEN "RGBA" ELSE "RGB")
       \/ /\ argv \in {<<s>> : s \in Scripts} \cup {<<s, InPath>> : s \in Scripts}
          /\ fs \in {NoFiles, InPath :> Garbage}
    /\ fs0 = fs
    /\ bg_prev = NoPixel
    /\ rerun = FALSE
    /\ Fresh
    /\ Unpadded
    /\ Untouched

FairSpec == FairInit /\ [][Next]_vars /\ WF_vars(Step)

-----------------------------------------------------------------------------
\* Vocabulary of the properties.

\* The four scans have run.
Scanned == pc = "crop" \/ (pc = "exit" /\ status = 0)
\* The run has saved its output and ended.
Saved == pc = "exit" /\ status = 0

\* The coordinates the running script classifies as not background.
NonBackground ==
    IF argv[1] = Advanced
    THEN {c \in DOMAIN img.pixels : ~IsBackground(img.pixels[c], bg_color, sensitivity)}
    ELSE {c \in DOMAIN img.pixels : IsNonWhite(img.pixels[c], sensitivity)}

\* (top, bottom, left, right) is the smallest rectangle holding the non-empty set S.
TightBox(S) ==
    /\ \A c \in S : left <= c[1] /\ c[1] <= right /\ top <= c[2] /\ c[2] <= bottom
    /\ \E c \in S : c[2] = top
    /\ \E c \in S : c[2] = bottom
    /\ \E c \in S : c[1] = left
    /\ \E c \in S : c[1] = right

\* The bounds are the image's edges.
FullBox ==
    /\ top = 0 /\ bottom = img.height - 1
    /\ left = 0 /\ right = img.width - 1

\* The output has the input's width and height.
SameSize == cropped.width = img.width /\ cropped.height = img.height

\* C1: in both scripts, once the scans have run on an image with a pixel
\* classified non-background, (top, bottom, left, right) is the minimal
\* rectangle containing every non-background pixel.
C1_MinimalBox == (Scanned /\ NonBackground # {}) => TightBox(NonBackground)

C1_Witness ==
    /\ Scanned
    /\ argv[1] = Advanced
    /\ Cardinality(NonBackground) >= 2
    /\ 0 < top /\ top < bottom
    /\ left < right /\ right < img.width - 1

\* C2: in both scripts, when every pixel is classified background the four
\* bounds are the image's edges, the run ends without error and the output
\* written has exactly the input's width and height.
C2_AllBackgroundKeepsSize ==
    (Scanned /\ NonBackground = {}) =>
        /\ FullBox
        /\ pc = "exit" => /\ status = 0
                          /\ SameSize
                          /\ cropped.width >= 1 /\ cropped.height >= 1
                          /\ fs[output_path] = cropped

C2_Witness ==
    /\ Saved
    /\ argv[1] = WhiteBorder
    /\ NonBackground = {}
    /\ img.width >= 2 /\ img.height >= 2

\* The run that has ended is the second one, made on the first one's output.
SecondRunSaved == rerun /\ Saved

\* The red, green and blue channels of a pixel.
RGB(p) == <<p[1], p[2], p[3]>>

\* C3, as claimed: running remove_border on its own output, with the same
\* tolerance and the reference re-sampled from the output's pixel (0,0),
\* writes an image identical to that output.
C3_ToleranceIdempotent ==
    (SecondRunSaved /\ argv[1] = Advanced) => fs[output_path] = fs[input_path]

\* C3, amended: the second run reproduces the first one's output whenever the
\* reference it samples has the RGB of the first run's reference.
C3_IdempotentOnSameReference ==
    (SecondRunSaved /\ argv[1] = Advanced /\ RGB(bg_color) = RGB(bg_prev)) =>
        fs[output_path] = fs[input_path]

\* The first run trimmed columns off a.png and left at least two; the second
\* run sampled a reference of the same RGB.
C3_Witness ==
    /\ SecondRunSaved
    /\ argv[1] = Advanced
    /\ RGB(bg_color) = RGB(bg_prev)
    /\ input_path = OutPath
    /\ fs[InPath].width > fs[OutPath].width
    /\ fs[OutPath].width >= 2 /\ fs[OutPath].height >= 2

\* C4: running remove_white_border on its own output, with the same
\* threshold, writes an image identical in size and pixels to that output.
C4_ThresholdIdempotent ==
    (SecondRunSaved /\ argv[1] = WhiteBorder) => fs[output_path] = fs[input_path]

C4_Witness ==
    /\ SecondRunSaved
    /\ argv[1] = WhiteBorder
    /\ input_path = OutPath
    /\ fs[InPath].height > fs[OutPath].height
    /\ fs[OutPath].width >= 2 /\ fs[OutPath].height >= 2
    /\ \E c \in DOMAIN img.pixels : ~IsNonWhite(img.pixels[c], sensitivity)

C6_DerivedPathDiffers ==
    (argv[1] = WhiteBorder /\ Len(argv) = 2 /\ pc # "main") =>
        /\ output_path # input_path
        /\ Saved => fs[input_path] = fs0[input_path]

\* Some channel of the pixel is further than the tolerance from the reference.
Far(p) == \E i \in 1 .. 3 : Abs(p[i] - bg_color[i]) > sensitivity

\* The pixels that are at least AlphaCutoff opaque and far from the reference.
OpaqueFar == {c \in DOMAIN img.pixels : img.pixels[c][4] >= AlphaCutoff /\ Far(img.pixels[c])}

\* C7: in remove_border every pixel with alpha < 10 is classified background
\* whatever its RGB and the tolerance; the bounding box is that of the
\* remaining far pixels alone, and when only transparent pixels are far from
\* the reference the image is cropped as all-background.
C7_TransparentIsBackground ==
    (Scanned /\ argv[1] = Advanced) =>
        /\ \A c \in DOMAIN img.pixels :
              img.pixels[c][4] < AlphaCutoff =>
                  IsBackground(img.pixels[c], bg_color, sensitivity)
        /\ OpaqueFar # {} => TightBox(OpaqueFar)
        /\ OpaqueFar = {} => FullBox /\ (pc = "exit" => SameSize)

\* The only pixels far from the reference are transparent ones, at the image's
\* edge: nothing is trimmed.
C7_Witness ==
    /\ Saved
    /\ argv[1] = Advanced
    /\ img.width >= 2
    /\ Far(img.pixels[<<img.width - 1, 0>>])
    /\ OpaqueFar = {}
    /\ SameSize

\* C8: in both scripts, one non-background pixel at (x0, y0) gives
\* top = bottom = y0, left = right = x0 and a 1x1 output holding that pixel.
C8_SinglePixel ==
    \A c \in DOMAIN img.pixels :
        (Scanned /\ NonBackground = {c}) =>
            /\ top = c[2] /\ bottom = c[2]
            /\ left = c[1] /\ right = c[1]
            /\ pc = "exit" => /\ cropped.width = 1 /\ cropped.height = 1
                              /\ cropped.pixels[<<0, 0>>] = img.pixels[c]
                              /\ fs[output_path] = cropped

C8_Witness ==
    /\ Saved
    /\ argv[1] = WhiteBorder
    /\ img.width = 3 /\ img.height = 3
    /\ NonBackground = {<<2, 1>>}

\* The outermost k rows and columns are background on all four sides, and
\* rows k and H-1-k and columns k and W-1-k each hold a non-background pixel.
UniformBorder(k) ==
    /\ 2 * k < img.width /\ 2 * k < img.height
    /\ \A c \in NonBackground :
          /\ k <= c[1] /\ c[1] <= img.width - 1 - k
          /\ k <= c[2] /\ c[2] <= img.height - 1 - k
    /\ \E c \in NonBackground : c[2] = k
    /\ \E c \in NonBackground : c[2] = img.height - 1 - k
    /\ \E c \in NonBackground : c[1] = k
    /\ \E c \in NonBackground : c[1] = img.width - 1 - k

\* C9: in both scripts, a W x H image with a background border of uniform
\* width k is cropped to (W - 2k) x (H - 2k).
C9_UniformBorder ==
    Saved => \A k \in 0 .. img.width :
                 UniformBorder(k) =>
                     /\ cropped.width = img.width - 2 * k
                     /\ cropped.height = img.height - 2 * k
                     /\ fs[output_path] = cropped

C9_Witness ==
    /\ Saved
    /\ argv[1] = Advanced
    /\ UniformBorder(1)

\* C10: in both scripts, after the four scans 0 <= top <= bottom < height and
\* 0 <= left <= right < width, with or without foreground pixels, so the crop
\* is inside the image and at least 1x1.
C10_BoundsInsideImage ==
    Scanned => /\ 0 <= top /\ top <= bottom /\ bottom < img.height
               /\ 0 <= left /\ left <= right /\ right < img.width
               /\ pc = "exit" => /\ cropped.width = right - left + 1
                                 /\ cropped.height = bottom - top + 1

C10_Witness ==
    /\ pc = "crop"
    /\ argv[1] = Advanced
    /\ NonBackground = {}
    /\ img.height >= 2
    /\ top = 0 /\ bottom = img.height - 1

\* The pixel at c is background by the tolerance rule, read from the image alone.
WithinTolerance(c) ==
    \/ img.pixels[c][4] < 10
    \/ \A i \in 1 .. 3 :
          Abs(img.pixels[c][i] - img.pixels[<<0, 0>>][i]) <= sensitivity

BelowThreshold(c) == \E i \in 1 .. 3 : img.pixels[c][i] < sensitivity

\* C15: in remove_white_border a pixel is content iff at least one of R, G, B
\* is below the threshold; no reference pixel is sampled, and all four bounds
\* follow that one rule.
C15_ThresholdClassification ==
    (Scanned /\ argv[1] = WhiteBorder) =>
        /\ bg_color = NoPixel
        /\ \A c \in DOMAIN img.pixels :
              IsNonWhite(img.pixels[c], sensitivity) <=> BelowThreshold(c)
        /\ LET content == {c \in DOMAIN img.pixels : BelowThreshold(c)}
           IN IF content = {} THEN FullBox ELSE TightBox(content)

\* A pixel with a single channel below the threshold is the only content.
C15_Witness ==
    /\ Saved
    /\ argv[1] = WhiteBorder
    /\ img.width >= 2
    /\ \E c \in DOMAIN img.pixels :
          /\ BelowThreshold(c)
          /\ \E i \in 1 .. 3 : img.pixels[c][i] >= sensitivity
          /\ left = c[1] /\ right = c[1]

\* The mode the running script converts its input to.
WorkingMode == IF argv[1] = Advanced THEN "RGBA" ELSE "RGB"

\* C16: the output is the closed rectangle [left, right] x [top, bottom] of the
\* scanned image: its size is (right-left+1) x (bottom-top+1), its pixel
\* (i, j) is the image's pixel (left+i, top+j), and the image in memory is
\* still the decoded input after the scans and after the crop.
C16_ClosedRectangle ==
    /\ Scanned => img = Convert(fs0[input_path], WorkingMode)
    /\ Saved =>
        /\ cropped.width = right - left + 1
        /\ cropped.height = bottom - top + 1
        /\ DOMAIN cropped.pixels = Coords(right - left + 1, bottom - top + 1)
        /\ \A c \in DOMAIN cropped.pixels :
              cropped.pixels[c] = img.pixels[<<left + c[1], top + c[2]>>]
        /\ cropped.mode = img.mode
        /\ fs[output_path] = cropped

\* A crop that trims more rows than columns.
C16_Witness ==
    /\ Saved
    /\ top > 0 /\ left = 0
    /\ cropped.width > cropped.height
    /\ cropped.height >= 2

\* The four bounds describe a non-empty rectangle inside the image.
ValidRectangle ==
    /\ 0 <= left /\ left <= right /\ right < img.width
    /\ 0 <= top /\ top <= bottom /\ bottom < img.height

\* C17: for every non-empty decoded image and every integer sensitivity, in
\* 0..255 or not, a run that is at the scans gets to the crop, and the step
\* the scans take ends there with a valid rectangle, never at a failure.
C17_ScanAlwaysReachesCrop ==
    /\ (pc = "scan") ~> (pc = "crop")
    /\ [][pc = "scan" => (pc' = "crop" /\ status' = -1 /\ ValidRectangle')]_vars

\* The scans have run with a sensitivity that is no channel value.
C17_Witness ==
    /\ pc = "crop"
    /\ sensitivity \notin 0 .. Opaque
    /\ img.width * img.height >= 2
    /\ ValidRectangle

\* C18: a crop run that ends with a nonzero status, its input path missing or
\* its data undecodable, has stopped for good: no step follows, the scans and
\* the crop never ran, nothing was saved, and the file system is as it was
\* when the run started.
C18_ErrorsAreTerminal ==
    (pc = "exit" /\ status # 0) =>
        /\ ~ENABLED Next
        /\ examined = NoReads
        /\ top = -1 /\ bottom = -1 /\ left = -1 /\ right = -1
        /\ cropped = NoImage
        /\ written = <<>>
        /\ fs = fs0

\* The run failed at Image.open: the path was given, its file is no image.
C18_Witness ==
    /\ pc = "exit"
    /\ status # 0
    /\ input_path # NoPath
    /\ input_path \in DOMAIN fs
    /\ output_path # input_path

\* The invocation was given an input path that names a decodable file.
InputUsable ==
    /\ Len(argv) >= 2
    /\ argv[2] \in DOMAIN fs0
    /\ fs0[argv[2]] # Garbage

IsContent(c) ==
    IF argv[1] = Advanced THEN ~WithinTolerance(c) ELSE BelowThreshold(c)

\* The rows, or columns, a scan has read a pixel of.
RowsOf(reads) == {c[2] : c \in reads}
ColsOf(reads) == {c[1] : c \in reads}

\* Each scan starts at its own edge of the image.
ScansStartAtEdges ==
    /\ 0 \in RowsOf(examined.top)
    /\ img.height - 1 \in RowsOf(examined.bottom)
    /\ 0 \in ColsOf(examined.left)
    /\ img.width - 1 \in ColsOf(examined.right)

\* Each scan goes inwards from its edge up to the bound it finds, or across
\* the whole image when there is no content, whatever the other bounds are.
ScansStopAtOwnBound ==
    LET none == \A c \in DOMAIN img.pixels : ~IsContent(c)
    IN  /\ RowsOf(examined.top) = 0 .. (IF none THEN img.height - 1 ELSE top)
        /\ RowsOf(examined.bottom) = (IF none THEN 0 ELSE bottom) .. img.height - 1
        /\ ColsOf(examined.left) = 0 .. (IF none THEN img.width - 1 ELSE left)
        /\ ColsOf(examined.right) = (IF none THEN 0 ELSE right) .. img.width - 1

\* C20 as stated: every row the row scans test and every column the column
\* scans test is read over all of its pixels.
C20_ScansRunInFull ==
    Scanned =>
        /\ ScansStartAtEdges
        /\ ScansStopAtOwnBound
        /\ \A c \in examined.top \cup examined.bottom :
              \A x \in 0 .. img.width - 1 :
                 <<x, c[2]>> \in examined.top \cup examined.bottom
        /\ \A c \in examined.left \cup examined.right :
              \A y \in 0 .. img.height - 1 :
                 <<c[1], y>> \in examined.left \cup examined.right

\* C20, amended: the four scans are independent: each starts at its own edge
\* and goes inwards up to its own bound, the column scans read every tested
\* column from row 0 and the row scans every tested row from column 0,
\* whatever the other bounds are; a tested row or column is read from its
\* first pixel up to and including its first content pixel, and over all of
\* its pixels only when it holds no content.
C20_ScansIndependent ==
    Scanned =>
        /\ ScansStartAtEdges
        /\ ScansStopAtOwnBound
        /\ \A s \in {"top", "bottom"} :
              \A y \in RowsOf(examined[s]) :
                 \A x \in 0 .. img.width - 1 :
                    <<x, y>> \in examined[s]
                        <=> \A x2 \in 0 .. x - 1 : ~IsContent(<<x2, y>>)
        /\ \A s \in {"left", "right"} :
              \A x \in ColsOf(examined[s]) :
                 \A y \in 0 .. img.height - 1 :
                    <<x, y>> \in examined[s]
                        <=> \A y2 \in 0 .. y - 1 : ~IsContent(<<x, y2>>)

\* The content lies below the first row and does not begin its column: the
\* left scan has read row 0 all the same, and its column only in part.
C20_Witness ==
    /\ Scanned
    /\ top >= 1
    /\ img.height >= 3
    /\ <<left, 0>> \in examined.left
    /\ <<left, img.height - 1>> \notin examined.left

-----------------------------------------------------------------------------
\* add_icon_padding.py.

\* add_padding_to_icon has built its canvas and has not yet handed over to
\* the crop: img is the icon it was given, converted to RGBA.
Composed == argv[1] = AddPadding /\ new_img # NoImage

\* The icon the padding was added to, as add_padding_to_icon read it.
Original == Convert(fs[LogoPath], "RGBA")

\* remove_border_advanced.py has scanned the padded icon of a square original.
PaddedScanned ==
    /\ argv[1] = Advanced
    /\ Scanned
    /\ Original.width = Original.height

\* The bounds are those of the pasted region.
BoxIsPastedRegion ==
    /\ left = padding
    /\ top = padding
    /\ right - left + 1 = original_size
    /\ bottom - top + 1 = original_size

\* C11 as stated: for every square icon and every percentage, the scans of
\* remove_border at tolerance 0 on the padded icon find left = top = pad and a
\* box as wide and as high as the original.
C11_RoundTrip == PaddedScanned => BoxIsPastedRegion

\* The original's pixel at c is fully opaque and not black.
Solid(c) == Original.pixels[c][4] = Opaque /\ RGB(Original.pixels[c]) # <<0, 0, 0>>

\* Each of the original's four outermost lines holds a solid pixel.
SolidEdges ==
    /\ \E c \in DOMAIN Original.pixels : c[1] = 0 /\ Solid(c)
    /\ \E c \in DOMAIN Original.pixels : c[1] = Original.width - 1 /\ Solid(c)
    /\ \E c \in DOMAIN Original.pixels : c[2] = 0 /\ Solid(c)
    /\ \E c \in DOMAIN Original.pixels : c[2] = Original.height - 1 /\ Solid(c)

\* C11, amended: when the padding is at least one pixel and each of the
\* original's first and last row and column holds a fully opaque pixel that
\* is not black, the scans of remove_border at tolerance 0 on the padded icon
\* find left = top = pad and a box as wide and as high as the original, and
\* the crop gives back the pasted pixels.
C11_RoundTripOfSolidEdges ==
    (PaddedScanned /\ padding >= 1 /\ SolidEdges) =>
        /\ BoxIsPastedRegion
        /\ bg_color = Clear
        /\ Saved =>
             /\ cropped.width = original_size
             /\ cropped.height = original_size
             /\ \A c \in DOMAIN cropped.pixels :
                   cropped.pixels[c] = new_img.pixels[<<c[1] + padding, c[2] + padding>>]

\* A 2x2 icon with solid and non-solid pixels has been padded and cropped back.
C11_Witness ==
    /\ PaddedScanned
    /\ Saved
    /\ padding >= 1
    /\ SolidEdges
    /\ original_size = 2
    /\ \E c \in DOMAIN Original.pixels : ~Solid(c)
    /\ cropped.width = 2

\* C12 as stated: every pixel of a square icon, semi-transparent ones too, is
\* found unchanged, RGB and alpha, at (x + pad, y + pad) of the canvas, and
\* every other pixel of the canvas is (0, 0, 0, 0).
C12_PastePreservesPixels ==
    (Composed /\ img.width = img.height) =>
        \A c \in DOMAIN new_img.pixels :
            LET d == <<c[1] - padding, c[2] - padding>>
            IN  new_img.pixels[c] =
                   (IF d \in DOMAIN img.pixels THEN img.pixels[d] ELSE Clear)

\* C13 as stated: the canvas is a square of side s + 2 * floor(s * pct / 100),
\* and the padding is floor(s * pct / 100), for a square icon of side s.
C13_CanvasSide ==
    (Composed /\ img.width = img.height) =>
        /\ padding = (original_size * padding_percent) \div 100
        /\ new_size = original_size + 2 * ((original_size * padding_percent) \div 100)
        /\ new_img.width = new_size
        /\ new_img.height = new_size

-----------------------------------------------------------------------------
\* remove_border_advanced.py: the reference pixel.

\* The pixel at c is visible and its colour is out of tolerance of the colour
\* of pixel (0,0), whatever the two alphas are.
ColourApart(c) ==
    /\ img.pixels[c][4] >= 10
    /\ \E i \in 1 .. 3 :
          Abs(img.pixels[c][i] - img.pixels[<<0, 0>>][i]) > sensitivity

\* C21: in remove_border neither the alpha of the reference nor the alpha of
\* a pixel with alpha >= 10 takes part in the classification: the content is
\* exactly the pixels with alpha >= 10 whose RGB is out of tolerance of the
\* reference's RGB, so an opaque pixel with the RGB of a fully transparent
\* pixel (0,0) is background and is trimmed like border.
C21_AlphaOfReferenceIgnored ==
    (Scanned /\ argv[1] = Advanced) =>
        /\ NonBackground = {c \in DOMAIN img.pixels : ColourApart(c)}
        /\ \A c \in DOMAIN img.pixels : \A a \in {0, Opaque} :
              IsBackground(img.pixels[c], [bg_color EXCEPT ![4] = a], sensitivity)
                 <=> ~ColourApart(c)
        /\ LET content == {c \in DOMAIN img.pixels : ColourApart(c)}
           IN IF content = {} THEN FullBox ELSE TightBox(content)

\* Pixel (0,0) is fully transparent with black behind it; an opaque black
\* pixel next to it has been trimmed off with it.
C21_Witness ==
    /\ Saved
    /\ argv[1] = Advanced
    /\ sensitivity = 0
    /\ img.pixels[<<0, 0>>] = Clear
    /\ img.width = 3
    /\ img.pixels[<<1, 0>>] = Black
    /\ left = 2

-----------------------------------------------------------------------------
\* fix_sync_event_references.

\* The line is one the function means to keep: it contains 'import', or its
\* stripped text starts with '//' or '*'.
KeptLine(line) ==
    \/ Contains(line, "import")
    \/ Strip(line) # <<>> /\ Head(Strip(line)) \in {"//", "*"}

\* The first call of fix_sync_event_references has returned, on a file it
\* could read and that is not the generated model.
FirstCallDone ==
    /\ argv[1] = Conflicts
    /\ pc = "returned"
    /\ step = 1
    /\ file_path = ServicePath
    /\ file_path \in DOMAIN fs0
    /\ fs0[file_path] # Undecodable

\* C23: after fix_sync_event_references every line that contains 'import' and
\* every line whose stripped text starts with '//' or '*' is identical to the
\* line before the call, and every whole-word SyncEvent of the other lines has
\* become LocalSyncEvent.
C23_ImportsAndCommentsKept ==
    FirstCallDone =>
        LET before == Split(fs0[file_path])
            after == Split(fs[file_path])
        IN  /\ Len(after) = Len(before)
            /\ \A i \in 1 .. Len(before) :
                  IF KeptLine(before[i])
                  THEN after[i] = before[i]
                  ELSE after[i] = Sub(WholeWord, ToLocal, before[i])

\* The number of places of the text where the piece starts.
Occurrences(text, piece) ==
    Cardinality({i \in 1 .. Len(text) - Len(piece) + 1 :
                    SubSeq(text, i, i + Len(piece) - 1) = piece})

\* C25: a second call of fix_sync_event_references on a file the first call
\* rewrote finds nothing to change: it writes nothing and returns False, the
\* content it computes is the content it read, and no call turns a
\* LocalSyncEvent into LocalLocalSyncEvent.
C25_SecondCallChangesNothing ==
    /\ (/\ argv[1] = Conflicts
        /\ pc = "returned"
        /\ step = 2
        /\ applied[1][2] = TRUE) =>
           /\ result = FALSE
           /\ written = <<>>
           /\ fs = fs0
           /\ file_content = fs[file_path]
    /\ (/\ argv[1] = Conflicts
        /\ pc = "returned"
        /\ file_path \in DOMAIN fs) =>
           Occurrences(fs[file_path], <<"Local", "Local", "SyncEvent">>)
               = Occurrences(fs0[file_path], <<"Local", "Local", "SyncEvent">>)

\* A second call has returned on a file the first call rewrote, which holds
\* LocalSyncEvent.
C25_Witness ==
    /\ argv[1] = Conflicts
    /\ pc = "returned"
    /\ step = 2
    /\ applied[1][2] = TRUE
    /\ applied[2][2] = FALSE
    /\ \E i \in 1 .. Len(fs[file_path]) - 1 :
          fs[file_path][i] = "Local" /\ fs[file_path][i + 1] = "SyncEvent"

\* C27: on a path that contains 'lib/models/SyncEvent.dart' the function
\* returns False and writes nothing, whatever the file holds.
C27_GeneratedModelKept ==
    (/\ argv[1] = Conflicts
     /\ pc = "returned"
     /\ file_path \in {ModelPath, BackupPath}) =>
        /\ result = FALSE
        /\ written = <<>>
        /\ fs = fs0

\* A call has returned on the generated model, which holds a whole-word
\* SyncEvent constructor call.
C27_Witness ==
    /\ argv[1] = Conflicts
    /\ pc = "returned"
    /\ step = 1
    /\ file_path = ModelPath
    /\ ReadableText(file_path)
    /\ Found(ConstructorCall, fs[file_path])
    /\ result = FALSE
    /\ fs = fs0

-----------------------------------------------------------------------------
\* fix_sync_event_constructors.

\* The parentheses open after token i of the text.
Nesting(s, i) ==
    Cardinality({j \in 1 .. i : s[j] = "("})
        - Cardinality({j \in 1 .. i : s[j] = ")"})

\* The opening parentheses of the SyncEvent constructor calls of a text, in
\* the order of the text.
CallOpenings(s) ==
    LET calls == FindAll(Cat(<<WordEdge, Lit({"SyncEvent"}), Star(Lit(Space)),
                               Lit({"("})>>), s, 1)
    IN  [k \in 1 .. Len(calls) |-> calls[k].e - 1]

\* The parenthesis that closes the one at open, 0 when nothing closes it.
Closing(s, open) ==
    LET ends == {j \in open + 1 .. Len(s) : Nesting(s, j) = Nesting(s, open) - 1}
    IN  IF ends = {} THEN 0
        ELSE CHOOSE j \in ends : \A n \in ends : j <= n

\* The arguments of an argument list: its pieces between the commas that are
\* inside no parentheses of the list, stripped.
Arguments(s) ==
    LET commas == {i \in 1 .. Len(s) : s[i] = "," /\ Nesting(s, i) = 0}
        Comma(k) ==
            IF k = 0 THEN 0
            ELSE IF k > Cardinality(commas) THEN Len(s) + 1
            ELSE CHOOSE i \in commas :
                     Cardinality({j \in commas : j < i}) = k - 1
        pieces == [k \in 1 .. Cardinality(commas) + 1 |->
                      Strip(SubSeq(s, Comma(k - 1) + 1, Comma(k) - 1))]
    IN  Filter(pieces, [k \in 1 .. Len(pieces) |-> NotBlank(pieces[k])])

\* The arguments of the call opened at open.
ArgumentsOf(s, open) == Arguments(SubSeq(s, open + 1, Closing(s, open) - 1))

\* The name of a named argument
NamedAs(arg, name) == Len(arg) >= 2 /\ arg[1] = name /\ arg[2] = ":"

\* C24: after fix_sync_event_constructors every SyncEvent constructor call of
\* the file, calls whose argument values hold parenthesised calls included,
\* has its closing parenthesis and, among its own arguments, each of the six
\* required named parameters, and the arguments the call had before are its
\* first arguments after, unchanged.
C24_EveryCallCompleted ==
    (argv[1] = LibErrors /\ pc = "returned") =>
        LET before == fs0[file_path]
            after == fs[file_path]
            was == CallOpenings(before)
            now == CallOpenings(after)
        IN  /\ Len(now) = Len(was)
            /\ \A k \in 1 .. Len(now) :
                  /\ Closing(after, now[k]) # 0
                  /\ \A n \in 1 .. Len(RequiredNames) :
                        \E a \in 1 .. Len(ArgumentsOf(after, now[k])) :
                            NamedAs(ArgumentsOf(after, now[k])[a],
                                    RequiredNames[n])
                  /\ Len(ArgumentsOf(before, was[k]))
                        <= Len(ArgumentsOf(after, now[k]))
                  /\ SubSeq(ArgumentsOf(after, now[k]), 1,
                            Len(ArgumentsOf(before, was[k])))
                        = ArgumentsOf(before, was[k])

-----------------------------------------------------------------------------
\* patch_document_sync_manager.

\* C26: when the target file is missing, or holds no text the error handling
\* pattern matches, patch_document_sync_manager returns False and the file
\* system is as before the call, also when a UUID import was added to the
\* content in memory; and the file is written exactly when the function
\* returns True.
C26_FailureLeavesFile ==
    (argv[1] = Patch /\ pc \in {"returned", "raised"}) =>
        /\ (\/ file_path \notin DOMAIN fs0
            \/ /\ fs0[file_path] # Undecodable
               /\ ~Found(ErrorPattern, fs0[file_path])) =>
               /\ pc = "returned"
               /\ result = FALSE
               /\ written = <<>>
               /\ fs = fs0
        /\ (pc = "returned" /\ result = TRUE) <=> (written = <<file_path>>)
        /\ (pc = "raised" \/ result = FALSE) => fs = fs0
        /\ (pc = "returned" /\ result = TRUE) =>
               fs = [fs0 EXCEPT ![file_path] = file_content]

\* The function has returned False for want of the pattern, with a UUID
\* import added to the content it held and not to the file.
C26_Witness ==
    /\ argv[1] = Patch
    /\ pc = "returned"
    /\ result = FALSE
    /\ file_path \in DOMAIN fs
    /\ Contains(file_content, UuidImport)
    /\ ~Contains(fs[file_path], UuidImport)
    /\ written = <<>>

-----------------------------------------------------------------------------
\* fix_document_references.

InSeq(x, xs) == \E i \in 1 .. Len(xs) : xs[i] = x

\* C28: a call of fix_document_references opens the file for writing if and
\* only if the transformed content differs from the content read, the file
\* then holding the transformed content unless the write raised; it returns
\* True exactly when it wrote the file; it returns False, with an error line
\* and nothing raised, when the read or the write raised; and the count main
\* keeps is the number of calls that returned True.
C28_WritesWhenChanged ==
    (argv[1] \in {DocumentModel, DocumentOnly}) =>
        /\ pc \in {"loop", "returned", "done"}
        /\ (pc = "returned") =>
              LET path == file_path
                  read == fs0[path] # Undecodable
                  transformed == FixDocument(argv[1], fs0[path])
                  differs == read /\ transformed # fs0[path]
                  failed == InSeq(ErrorProcessing(path), stdout)
              IN  /\ applied[Len(applied)] = <<path, result>>
                  /\ differs <=> (InSeq(path, written) \/ (read /\ failed))
                  /\ InSeq(path, written) <=> (differs /\ path \notin readonly)
                  /\ result <=> InSeq(path, written)
                  /\ fs[path] = IF InSeq(path, written) THEN transformed
                                ELSE fs0[path]
                  /\ failed <=> (~read \/ (differs /\ path \in readonly))
                  /\ failed => ~result
                  /\ \A other \in DOMAIN fs \ {path} :
                        fs[other] # fs0[other] => InSeq(other, written)
        /\ (pc \in {"loop", "done"}) =>
              fixed_count =
                  Cardinality({k \in 1 .. Len(applied) : applied[k][2]})
        /\ (pc = "done") =>
              /\ Len(applied) = 2
              /\ stdout[Len(stdout)] = FixedFiles(fixed_count)

\* main is done: the first file needed a change and could not be written,
\* the second was written, and the count is 1.
C28_Witness ==
    /\ argv[1] = DocumentModel
    /\ pc = "done"
    /\ fs0[FirstFile] # Undecodable
    /\ FixDocument(argv[1], fs0[FirstFile]) # fs0[FirstFile]
    /\ FirstFile \in readonly
    /\ applied = << <<FirstFile, FALSE>>, <<SecondFile, TRUE>> >>
    /\ written = <<SecondFile>>
    /\ fixed_count = 1

-----------------------------------------------------------------------------
\* The batch fixers.

\* The steps taken on a file, in the order taken.
LogOf(path) == SelectSeq(applied, LAMBDA r : r.file = path)
FixesOf(path) == [i \in 1 .. Len(LogOf(path)) |-> LogOf(path)[i].fix]
RaisedOn(path) == \E i \in 1 .. Len(LogOf(path)) : LogOf(path)[i].raised

\* The loop is through with the file.
Finished(path) == ~InSeq(path, todo)

\* The file is one fix_remaining_errors.py skips.
Skipped(path) == argv[1] = RemainingErrors /\ IsMock(path)

\* A step that raised is the last step taken on its file.
RaiseEndsFile ==
    \A i \in 1 .. Len(applied) - 1 :
        applied[i].raised => applied[i + 1].file # applied[i].file

\* C29 as stated: when a fix step raises for a file the remaining steps of
\* the file are skipped, every file listed after it has, at the end of the
\* run, had all the fix steps in the fixed order, none raising, and the run
\* reaches its completion message.
C29_LaterFilesGetAllSteps ==
    /\ [](argv[1] \in BatchScripts =>
            /\ RaiseEndsFile
            /\ pc = "done" =>
                 LET files == Listed(argv[1], fs0)
                 IN  \A i \in 1 .. Len(files) : \A j \in i + 1 .. Len(files) :
                         RaisedOn(files[i]) =>
                             /\ FixesOf(files[j]) = FixSteps(argv[1])
                             /\ ~RaisedOn(files[j]))
    /\ (argv[1] \in BatchScripts) ~> (pc = "done")

\* What the loop has done with the files, whatever happened to earlier files:
\* the steps taken on a file are the first steps of the fixed order, a raise
\* is the last of them and is reported, and a file the loop is through with
\* was announced and has had no step when it is a mock file of
\* fix_remaining_errors.py, and otherwise all the steps or the steps up to
\* the one that raised.
EachFileOnItsOwn ==
    LET files == Listed(argv[1], fs0)
        all == FixSteps(argv[1])
    IN  /\ RaiseEndsFile
        /\ \A j \in 1 .. Len(files) :
              LET n == Len(LogOf(files[j]))
              IN  /\ n <= Len(all)
                  /\ FixesOf(files[j]) = SubSeq(all, 1, n)
                  /\ Finished(files[j]) =>
                        /\ InSeq(Processing(files[j]), stdout)
                        /\ IF Skipped(files[j])
                           THEN n = 0 /\ InSeq(Skipping(files[j]), stdout)
                           ELSE \/ n = Len(all) /\ ~RaisedOn(files[j])
                                \/ n >= 1 /\ LogOf(files[j])[n].raised
                        /\ RaisedOn(files[j])
                              <=> InSeq(ErrorProcessing(files[j]), stdout)
                  /\ \A i \in 1 .. j - 1 :
                        LogOf(files[j]) # <<>> => Finished(files[i])
        /\ \A k \in 1 .. Len(applied) : InSeq(applied[k].file, files)
        /\ pc = "done" =>
              /\ todo = <<>>
              /\ SubSeq(stdout, Len(stdout) - 1, Len(stdout))
                    = <<Completed(argv[1]), RunAnalyze>>

\* C29, amended: a raise ends the steps of its own file only; every later
\* file of the list is taken up from its first fix step in the fixed order
\* and gets all its steps unless one of its own steps raises or the file is
\* a mock file fix_remaining_errors.py skips; and the run reaches its
\* completion message.
C29_FailureStaysInItsFile ==
    /\ [](argv[1] \in BatchScripts => EachFileOnItsOwn)
    /\ (argv[1] \in BatchScripts) ~> (pc = "done")

\* fix_remaining_errors.py is done with three files: a step raised on the
\* first, the second is a mock file and was skipped, and the third had all
\* six steps.
C29_Witness ==
    /\ argv[1] = RemainingErrors
    /\ pc = "done"
    /\ Len(Listed(argv[1], fs0)) = 3
    /\ RaisedOn(Listed(argv[1], fs0)[1])
    /\ Len(LogOf(Listed(argv[1], fs0)[1])) = 1
    /\ LogOf(Listed(argv[1], fs0)[2]) = <<>>
    /\ FixesOf(Listed(argv[1], fs0)[3]) = FixSteps(argv[1])
    /\ ~RaisedOn(Listed(argv[1], fs0)[3])

====
